---- MODULE Spec2Model ----
(***************************************************************************)
(* The RAG store of workshop1: the SQLite database of vector_db.py (the    *)
(* embeddings_meta table, the vec_embeddings vector table and the          *)
(* embeddings_fts lexical index), the connections that read and write it,  *)
(* and the ingestion calls of rag.py that run on those connections.        *)
(*                                                                         *)
(* A Python str is a TLA+ string; Python None and SQL NULL are the value   *)
(* None, which is different from every string the inputs contain.          *)
(***************************************************************************)
EXTENDS Integers, Sequences, FiniteSets, TLC

VARIABLES
    db,        \* the committed database: [meta, vec, fts, seq]
    tx,        \* per connection: the open transaction and its private view
    pc,        \* per connection: where its current call stands
    del,       \* per connection: the frame of delete_embeddings_by_source
    job,       \* per connection: the frame of embed_single_notion_page
    last,      \* the call that completed last: its arguments and its result
    issued,    \* history: the largest rowid save_embedding has returned so far
    corpus,    \* the store as a query sees it: per rowid, its scores for the query
    searched,  \* the search call that completed last: arguments, outcome,
               \* and whether the call before it had the same arguments
    applied,   \* the chunker or formatter call that completed last
    emb        \* the process-wide embedding model and the threads asking for it

\* The variables of the write path and those of the search path.
wvars == <<db, tx, pc, del, job, last, issued>>
svars == <<corpus, searched>>
\* The variables of the functions that touch no store.
xvars == <<applied, emb>>

vars == <<db, tx, pc, del, job, last, issued, corpus, searched, applied, emb>>

None == "<None>"

\* The connections (one per process that has the database open).
Conns == {"c1", "c2"}

\* Bound on the rowids the model hands out (sqlite_sequence stays <= MaxId).
MaxId == 3

SOURCE_BUSINESS_DOC == "business_doc"
SOURCE_POST == "post"
SOURCE_REPLY == "reply"

CHARS_PER_TOKEN == 4
MIN_CHUNK_TOKENS == 250
MAX_CHUNK_TOKENS == 500

Max(S) == CHOOSE m \in S : \A n \in S : n <= m

(***************************************************************************)
(* Python values and their JSON text.  A dict is the set of its items      *)
(* [k, t, v]: key, type of the value, value.  A JSON object is the set of  *)
(* its members [k, t, v] with the JSON type of the value.                  *)
(***************************************************************************)
PyItem(k, t, v) == [k |-> k, t |-> t, v |-> v]

\* An Optional[dict] argument: None, or a dict.
PyNoneDict == [isNone |-> TRUE, items |-> {}]
PyDict(items) == [isNone |-> FALSE, items |-> items]

\* Python truthiness of an Optional[dict]: None and {} are falsy.
Truthy(d) == ~d.isNone /\ d.items # {}

\* A serialisation that writes every value with str(): None becomes the
\* string "None".
JsonOfPyStr(i) ==
    [k |-> i.k, t |-> IF i.t = "int" THEN "number" ELSE "string", v |-> i.v]

\* json.dumps of one value: the JSON type and token of a Python scalar.
JsonOfPy(i) ==
    CASE i.t = "NoneType" -> [k |-> i.k, t |-> "null", v |-> "null"]
      [] i.t = "str"      -> [k |-> i.k, t |-> "string", v |-> i.v]
      [] i.t = "int"      -> [k |-> i.k, t |-> "number", v |-> i.v]
      [] i.t = "bool"     -> [k |-> i.k, t |-> "literal",
                              v |-> IF i.v = "True" THEN "true" ELSE "false"]

\* json.loads of one member.
PyOfJson(m) ==
    CASE m.t = "null"    -> [k |-> m.k, t |-> "NoneType", v |-> None]
      [] m.t = "string"  -> [k |-> m.k, t |-> "str", v |-> m.v]
      [] m.t = "number"  -> [k |-> m.k, t |-> "int", v |-> m.v]
      [] m.t = "literal" -> [k |-> m.k, t |-> "bool",
                             v |-> IF m.v = "true" THEN "True" ELSE "False"]

\* A TEXT column that may be NULL.
SqlNull == [null |-> TRUE, json |-> {}]
SqlText(members) == [null |-> FALSE, json |-> members]

\* save_embedding: json.dumps(metadata) if metadata else None
MetadataColumn(metadata) ==
    IF Truthy(metadata)
    THEN SqlText({JsonOfPy(i) : i \in metadata.items})
    ELSE SqlNull

\* get_metadata_by_ids: json.loads(row[4]) if row[4] else {}
MetadataOfColumn(col) ==
    IF ~col.null /\ col.json # {}
    THEN PyDict({PyOfJson(m) : m \in col.json})
    ELSE PyDict({})

(***************************************************************************)
(* The database.  A view is what one connection sees: the three structures *)
(* and the AUTOINCREMENT counter kept in sqlite_sequence.                  *)
(***************************************************************************)
EmptyView == [meta |-> <<>>, vec |-> <<>>, fts |-> <<>>, seq |-> 0]

NoTx == [open |-> FALSE, view |-> EmptyView]

\* What connection c reads: its own uncommitted changes, else the database.
View(c) == IF tx[c].open THEN tx[c].view ELSE db

\* Another connection holds the write lock (an open write transaction).
Locked(c) == \E o \in Conns \ {c} : tx[o].open

\* INTEGER PRIMARY KEY without AUTOINCREMENT: one more than the largest rowid
\* in the table.
NextRowidReusing(v) == Max({0} \cup DOMAIN v.meta) + 1

\* INTEGER PRIMARY KEY AUTOINCREMENT: one more than the largest rowid ever used.
NextRowid(v) == Max({v.seq} \cup DOMAIN v.meta) + 1

\* generate_embedding: the vector of a text (the model is a function of the text).
GenerateEmbedding(text) == [of |-> text]

\* INSERT INTO embeddings_meta, with the AFTER INSERT trigger embeddings_ai.
InsertMeta(v, source_type, source_id, content, metadata) ==
    LET rowid == NextRowid(v)
        row == [source_type |-> source_type, source_id |-> source_id,
                content |-> content, metadata |-> MetadataColumn(metadata)]
        entry == [content |-> content, source_type |-> source_type,
                  source_id |-> source_id]
    IN [v EXCEPT
          !.meta = [i \in DOMAIN v.meta \cup {rowid} |->
                       IF i = rowid THEN row ELSE v.meta[i]],
          !.fts = [i \in DOMAIN v.fts \cup {rowid} |->
                       IF i = rowid THEN entry ELSE v.fts[i]],
          !.seq = rowid]

\* INSERT INTO vec_embeddings (rowid, embedding)
InsertVec(v, rowid, embedding) ==
    [v EXCEPT !.vec = [i \in DOMAIN v.vec \cup {rowid} |->
                          IF i = rowid THEN embedding ELSE v.vec[i]]]

\* A SELECT that binds an absent source_id as NULL in `source_id = ?`: no row
\* matches.
SelectIdsBound(v, source_type, source_id) ==
    {i \in DOMAIN v.meta :
        /\ v.meta[i].source_type = source_type
        /\ source_id # None
        /\ v.meta[i].source_id = source_id}

\* SELECT id FROM embeddings_meta WHERE source_type = ? [AND source_id = ?]
SelectIds(v, source_type, source_id) ==
    IF source_id # None /\ source_id # ""
    THEN {i \in DOMAIN v.meta :
              /\ v.meta[i].source_type = source_type
              /\ v.meta[i].source_id # None
              /\ v.meta[i].source_id = source_id}
    ELSE {i \in DOMAIN v.meta : v.meta[i].source_type = source_type}

\* DELETE FROM vec_embeddings WHERE rowid IN (ids)
DeleteVec(v, gone) ==
    [v EXCEPT !.vec = [i \in DOMAIN v.vec \ gone |-> v.vec[i]]]

\* The DELETE without the trigger embeddings_ad: the lexical index keeps the
\* entries.
DeleteMetaNoTrigger(v, gone) ==
    [v EXCEPT !.meta = [i \in DOMAIN v.meta \ gone |-> v.meta[i]]]

\* DELETE FROM embeddings_meta WHERE id IN (ids), with the AFTER DELETE
\* trigger embeddings_ad.
DeleteMeta(v, gone) ==
    [v EXCEPT !.meta = [i \in DOMAIN v.meta \ gone |-> v.meta[i]],
              !.fts = [i \in DOMAIN v.fts \ (gone \cap DOMAIN v.meta) |-> v.fts[i]]]

\* get_metadata_by_ids
GetMetadataByIds(v, want) ==
    [i \in want \cap DOMAIN v.meta |->
        [source_type |-> v.meta[i].source_type,
         source_id |-> v.meta[i].source_id,
         content |-> v.meta[i].content,
         metadata |-> MetadataOfColumn(v.meta[i].metadata)]]

\* get_embedding_stats
GetEmbeddingStats(v) ==
    LET types == {v.meta[i].source_type : i \in DOMAIN v.meta}
    IN [total |-> Cardinality(DOMAIN v.meta),
        by_type |-> [t \in types |->
            Cardinality({i \in DOMAIN v.meta : v.meta[i].source_type = t})]]

(***************************************************************************)
(* The chunker (chunker.py).  A page's content is the sequence of pieces   *)
(* that re.split(r"\n\n+") yields, each already stripped: its text, its    *)
(* length in characters, and the header title when the piece is one        *)
(* markdown header line (None otherwise).  A blank piece has 0 characters. *)
(***************************************************************************)
Txt(s) == [s |-> s, n |-> Len(s)]
Cat(a, b) == [s |-> a.s \o b.s, n |-> a.n + b.n]

RECURSIVE Join(_, _)
Join(sep, ts) ==
    IF ts = <<>> THEN Txt("")
    ELSE IF Len(ts) = 1 THEN ts[1]
    ELSE Cat(Cat(ts[1], sep), Join(sep, Tail(ts)))

\* estimate_tokens
EstimateTokens(text) == text.n \div CHARS_PER_TOKEN

SplitKeepingBlanks(content) == content

\* split_into_paragraphs: the non-blank pieces, in order.
SplitIntoParagraphs(content) == SelectSeq(content, LAMBDA p : p.n > 0)

\* _build_chunk_content
BuildChunkContent(title, section, paragraphs) ==
    LET t == IF title # None /\ title # ""
             THEN <<Cat(Cat(Txt("[Document: "), Txt(title)), Txt("]"))>> ELSE <<>>
        s == IF section # None /\ section # ""
             THEN <<Cat(Cat(Txt("[Section: "), Txt(section)), Txt("]"))>> ELSE <<>>
        body == Join(Txt("\n\n"), [i \in DOMAIN paragraphs |->
                                        [s |-> paragraphs[i].s, n |-> paragraphs[i].n]])
    IN Join(Txt("\n"), t \o s \o <<body>>)

\* The chunk dict chunk_business_doc appends.
MakeChunk(title, section, parts, source_id) ==
    LET chunk_content == BuildChunkContent(title, section, parts)
    IN [content |-> chunk_content.s,
        metadata |-> PyDict({
            PyItem("source_id", IF source_id = None THEN "NoneType" ELSE "str", source_id),
            PyItem("title", "str", title),
            PyItem("section", IF section = None THEN "NoneType" ELSE "str", section),
            PyItem("estimated_tokens", "int", EstimateTokens(chunk_content))})]

RECURSIVE ChunkLoopAtMax(_, _, _, _, _, _, _)
ChunkLoopAtMax(paragraphs, i, st, title, source_id, max_chars, min_chars) ==
    IF i > Len(paragraphs)
    THEN IF st.parts # <<>>
         THEN Append(st.chunks, MakeChunk(title, st.section, st.parts, source_id))
         ELSE st.chunks
    ELSE LET para == paragraphs[i]
             section == IF para.header # None THEN para.header ELSE st.section
             close == st.chars + para.n >= max_chars /\ st.chars >= min_chars
             kept == IF close
                     THEN [chunks |-> Append(st.chunks,
                                        MakeChunk(title, section, st.parts, source_id)),
                           parts |-> <<>>, chars |-> 0]
                     ELSE [chunks |-> st.chunks, parts |-> st.parts, chars |-> st.chars]
         IN ChunkLoopAtMax(paragraphs, i + 1,
                      [chunks |-> kept.chunks, parts |-> Append(kept.parts, para),
                       chars |-> kept.chars + para.n, section |-> section],
                      title, source_id, max_chars, min_chars)

\* The for loop of chunk_business_doc from paragraph i on; st is its locals.
RECURSIVE ChunkLoop(_, _, _, _, _, _, _)
ChunkLoop(paragraphs, i, st, title, source_id, max_chars, min_chars) ==
    IF i > Len(paragraphs)
    THEN IF st.parts # <<>>
         THEN Append(st.chunks, MakeChunk(title, st.section, st.parts, source_id))
         ELSE st.chunks
    ELSE LET para == paragraphs[i]
             section == IF para.header # None THEN para.header ELSE st.section
             close == st.chars + para.n > max_chars /\ st.chars >= min_chars
             kept == IF close
                     THEN [chunks |-> Append(st.chunks,
                                        MakeChunk(title, section, st.parts, source_id)),
                           parts |-> <<>>, chars |-> 0]
                     ELSE [chunks |-> st.chunks, parts |-> st.parts, chars |-> st.chars]
         IN ChunkLoop(paragraphs, i + 1,
                      [chunks |-> kept.chunks, parts |-> Append(kept.parts, para),
                       chars |-> kept.chars + para.n, section |-> section],
                      title, source_id, max_chars, min_chars)

\* chunk_business_doc
ChunkBusinessDoc(content, title, source_id, max_tokens, min_tokens) ==
    ChunkLoop(SplitIntoParagraphs(content), 1,
              [chunks |-> <<>>, parts |-> <<>>, chars |-> 0, section |-> None],
              title, source_id, max_tokens * CHARS_PER_TOKEN, min_tokens * CHARS_PER_TOKEN)

\* chunk_notion_page
ChunkNotionPage(page) ==
    ChunkBusinessDoc(page.content, page.title, page.id, MAX_CHUNK_TOKENS, MIN_CHUNK_TOKENS)

(***************************************************************************)
(* Inputs.                                                                 *)
(***************************************************************************)
\* The (source_type, source_id) arguments of delete_embeddings_by_source.
DeleteInputs == {
    [source_type |-> SOURCE_BUSINESS_DOC, source_id |-> None],
    [source_type |-> SOURCE_BUSINESS_DOC, source_id |-> "page-42"],
    [source_type |-> SOURCE_BUSINESS_DOC, source_id |-> ""],
    [source_type |-> SOURCE_POST, source_id |-> None],
    [source_type |-> SOURCE_POST, source_id |-> ""],
    [source_type |-> SOURCE_REPLY, source_id |-> None] }

\* The records callers hand to save_embedding.
SaveInputs == {
    [source_type |-> SOURCE_BUSINESS_DOC, source_id |-> "page-7",
     content |-> "Opening hours", metadata |-> PyDict({})],
    [source_type |-> SOURCE_POST, source_id |-> None,
     content |-> "", metadata |-> PyNoneDict],
    [source_type |-> SOURCE_POST, source_id |-> "",
     content |-> "New blend today",
     metadata |-> PyDict({PyItem("post_id", "str", ""),
                          PyItem("estimated_tokens", "int", 3),
                          PyItem("pinned", "bool", "True"),
                          PyItem("mastodon_url", "NoneType", None)})] }

Para(s, n, header) == [s |-> s, n |-> n, header |-> header]

\* Two versions of the Notion page page-42.
Pages == {
    [id |-> "page-42", title |-> "Seasonal Blend",
     content |-> <<Para("# Beans", 7, "Beans"), Para("", 0, None),
                   Para("<p1>", 1200, None), Para("<p2>", 1200, None)>>],
    [id |-> "page-42", title |-> "Seasonal Blend",
     content |-> <<Para("<p3>", 300, None)>>] }

NoArgs == [none |-> TRUE]
NoJob == [active |-> FALSE, page |-> NoArgs, k |-> 0]
NoDelete == [source_type |-> None, source_id |-> None, ids |-> {}]
NoCall == [conn |-> None, op |-> "none", args |-> NoArgs, kind |-> "none", value |-> 0,
           at |-> "none"]

\* The record of a completed call on connection c: it returned a rowid or a
\* count (kind, value), or it raised at the statement `at`.
Returns(c, op, a, kind, value) ==
    [conn |-> c, op |-> op, args |-> a, kind |-> kind, value |-> value, at |-> "none"]
Raises(c, op, at) ==
    [conn |-> c, op |-> op, args |-> NoArgs, kind |-> "raise", value |-> 0, at |-> at]

\* No search call has completed yet; a store without records.
NoSearch == [op |-> "none", args |-> NoArgs, out |-> NoArgs, again |-> FALSE]
EmptyCorpus == <<>>
NoApplied == [op |-> "none", args |-> NoArgs, out |-> NoArgs]
\* _embedding_model is None, no TextEmbedding has been constructed and no
\* thread is inside _get_embedding_model.  Instances are numbered from 1.
Threads == {"t1", "t2", "t3"}
NoModel == [model |-> 0, made |-> 0,
            th |-> [t \in Threads |-> [at |-> "idle", fresh |-> 0, got |-> 0]]]
\* A call of the chunker or the formatter about to be made with arguments a.
Given(a) == [op |-> "given", args |-> a, out |-> NoArgs]

Init ==
    /\ db = EmptyView
    /\ tx = [c \in Conns |-> NoTx]
    /\ pc = [c \in Conns |-> "idle"]
    /\ del = [c \in Conns |-> NoDelete]
    /\ job = [c \in Conns |-> NoJob]
    /\ last = NoCall
    /\ issued = 0
    /\ corpus = EmptyCorpus
    /\ searched = NoSearch
    /\ applied = NoApplied
    /\ emb = NoModel

(***************************************************************************)
(* save_embedding (vector_db.py).  The first INSERT opens the connection's *)
(* transaction, unless one is open already; commit() ends it.  An          *)
(* exception leaves the transaction as it is: nothing rolls it back.       *)
(***************************************************************************)
\* The rowid save_embedding returns on connection c.
SaveRowid(c) == NextRowid(View(c))

\* The database after save_embedding ran to its end on c: both INSERTs,
\* then commit.
SaveCommitted(c, a) ==
    LET v1 == InsertMeta(View(c), a.source_type, a.source_id, a.content, a.metadata)
    IN InsertVec(v1, v1.seq, GenerateEmbedding(a.content))

\* The transaction of c after the INSERT into vec_embeddings raised (an
\* embedding of the wrong dimension, an I/O error): the metadata row and its
\* lexical entry stay in the open transaction.
SaveAbandoned(c, a) ==
    [open |-> TRUE,
     view |-> InsertMeta(View(c), a.source_type, a.source_id, a.content, a.metadata)]

\* A caller of vector_db.save_embedding on its own connection.
SaveEmbedding(c) ==
    /\ pc[c] = "idle"
    /\ ~Locked(c)
    /\ SaveRowid(c) <= MaxId
    /\ \E a \in SaveInputs :
          /\ db' = SaveCommitted(c, a)
          /\ last' = Returns(c, "save", a, "rowid", SaveRowid(c))
    /\ tx' = [tx EXCEPT ![c] = NoTx]
    /\ issued' = SaveRowid(c)
    /\ UNCHANGED <<pc, del, job>>

SaveEmbeddingRaises(c) ==
    /\ pc[c] = "idle"
    /\ ~Locked(c)
    /\ SaveRowid(c) <= MaxId
    /\ \E a \in SaveInputs : tx' = [tx EXCEPT ![c] = SaveAbandoned(c, a)]
    /\ last' = Raises(c, "save", "insert_vec")
    /\ UNCHANGED <<db, pc, del, job, issued>>

\* The database is locked by another connection's transaction: the first
\* INSERT raises sqlite3.OperationalError and nothing is written.
SaveEmbeddingLocked(c) ==
    /\ pc[c] = "idle"
    /\ Locked(c)
    /\ last' = Raises(c, "save", "insert_meta")
    /\ UNCHANGED <<db, tx, pc, del, job, issued>>

(***************************************************************************)
(* delete_embeddings_by_source (vector_db.py): the SELECT, then the two    *)
(* DELETEs and the commit.                                                 *)
(***************************************************************************)
\* The database after the two DELETEs and the commit on c.
DeleteCommitted(c) == DeleteMeta(DeleteVec(View(c), del[c].ids), del[c].ids)

\* return len(ids)
DeleteCount(c) == Cardinality(del[c].ids)

\* Lines 235-252: SELECT the ids; return 0 when there are none.
DeleteSelect(c) ==
    /\ pc[c] = "idle"
    /\ \E a \in DeleteInputs :
          LET found == SelectIds(View(c), a.source_type, a.source_id)
          IN IF found = {}
             THEN /\ last' = Returns(c, "delete", a, "count", 0)
                  /\ UNCHANGED <<pc, del>>
             ELSE /\ pc' = [pc EXCEPT ![c] = "delete"]
                  /\ del' = [del EXCEPT ![c] = [source_type |-> a.source_type,
                                                source_id |-> a.source_id,
                                                ids |-> found]]
                  /\ UNCHANGED last
    /\ UNCHANGED <<db, tx, job, issued>>

\* Lines 254-262: the DELETEs, commit, return len(ids).
DeleteApply(c) ==
    /\ pc[c] = "delete"
    /\ ~Locked(c)
    /\ db' = DeleteCommitted(c)
    /\ tx' = [tx EXCEPT ![c] = NoTx]
    /\ last' = Returns(c, "delete", [source_type |-> del[c].source_type,
                                   source_id |-> del[c].source_id],
                        "count", DeleteCount(c))
    /\ pc' = [pc EXCEPT ![c] = "idle"]
    /\ del' = [del EXCEPT ![c] = NoDelete]
    /\ UNCHANGED <<job, issued>>

\* The database is locked: the first DELETE raises and nothing is written.
DeleteLocked(c) ==
    /\ pc[c] = "delete"
    /\ Locked(c)
    /\ last' = Raises(c, "delete", "delete_vec")
    /\ pc' = [pc EXCEPT ![c] = "idle"]
    /\ del' = [del EXCEPT ![c] = NoDelete]
    /\ UNCHANGED <<db, tx, job, issued>>

\* conn.close(): an open transaction is rolled back.
Close(c) ==
    /\ pc[c] = "idle"
    /\ tx[c].open
    /\ tx' = [tx EXCEPT ![c] = NoTx]
    /\ UNCHANGED <<db, pc, del, job, last, issued>>

(***************************************************************************)
(* embed_single_notion_page (rag.py): delete the page's records, chunk,    *)
(* embed, save each chunk.  With conn=None it opens its own connection and *)
(* closes it in `finally`, which rolls an open transaction back.           *)
(***************************************************************************)
\* A loop that saves the first chunk at every turn.
ChunkArgsFirst(page, k) ==
    LET chunk == ChunkNotionPage(page)[1]
    IN [source_type |-> SOURCE_BUSINESS_DOC, source_id |-> page.id,
        content |-> chunk.content, metadata |-> chunk.metadata]

\* The arguments of the save_embedding call for chunk k of the page.
ChunkArgs(page, k) ==
    LET chunk == ChunkNotionPage(page)[k]
    IN [source_type |-> SOURCE_BUSINESS_DOC, source_id |-> page.id,
        content |-> chunk.content, metadata |-> chunk.metadata]

IngestArgs(c) == [page |-> job[c].page]

\* finally: conn.close().  Every call site leaves conn=None, so the call
\* opened the connection itself and should_close is true.
AfterFinally(c, t) == NoTx

\* Lines 220-226 and 235-252: the call starts and delete_embeddings_by_source
\* SELECTs the page's ids.
IngestStart(c) ==
    /\ pc[c] = "idle"
    /\ ~tx[c].open
    /\ \E page \in Pages :
          /\ job' = [job EXCEPT ![c] = [active |-> TRUE, page |-> page, k |-> 1]]
          /\ LET found == SelectIds(View(c), SOURCE_BUSINESS_DOC, page.id)
             IN IF found = {}
                THEN /\ pc' = [pc EXCEPT ![c] = "ing_chunk"]
                     /\ UNCHANGED del
                ELSE /\ pc' = [pc EXCEPT ![c] = "ing_delete"]
                     /\ del' = [del EXCEPT ![c] =
                                  [source_type |-> SOURCE_BUSINESS_DOC,
                                   source_id |-> page.id, ids |-> found]]
    /\ UNCHANGED <<db, tx, last, issued>>

\* Lines 254-262 inside the call: the DELETEs and the commit.
IngestDelete(c) ==
    /\ pc[c] = "ing_delete"
    /\ ~Locked(c)
    /\ db' = DeleteCommitted(c)
    /\ tx' = [tx EXCEPT ![c] = NoTx]
    /\ pc' = [pc EXCEPT ![c] = "ing_chunk"]
    /\ del' = [del EXCEPT ![c] = NoDelete]
    /\ UNCHANGED <<job, last, issued>>

\* The DELETE raises because the database is locked; the call ends.
IngestDeleteLocked(c) ==
    /\ pc[c] = "ing_delete"
    /\ Locked(c)
    /\ last' = Raises(c, "ingest", "delete_vec")
    /\ tx' = [tx EXCEPT ![c] = AfterFinally(c, tx[c])]
    /\ pc' = [pc EXCEPT ![c] = "idle"]
    /\ del' = [del EXCEPT ![c] = NoDelete]
    /\ job' = [job EXCEPT ![c] = NoJob]
    /\ UNCHANGED <<db, issued>>

\* Lines 228-233: chunk_notion_page and generate_embeddings_batch; a page
\* without chunks returns 0 at once.
IngestChunk(c) ==
    /\ pc[c] = "ing_chunk"
    /\ IF ChunkNotionPage(job[c].page) = <<>>
       THEN /\ last' = Returns(c, "ingest", IngestArgs(c), "count", 0)
            /\ tx' = [tx EXCEPT ![c] = AfterFinally(c, tx[c])]
            /\ pc' = [pc EXCEPT ![c] = "idle"]
            /\ job' = [job EXCEPT ![c] = NoJob]
       ELSE /\ pc' = [pc EXCEPT ![c] = "ing_save"]
            /\ UNCHANGED <<tx, job, last>>
    /\ UNCHANGED <<db, del, issued>>

\* generate_embeddings_batch raises (the model fails); the call ends.
IngestEmbedRaises(c) ==
    /\ pc[c] = "ing_chunk"
    /\ last' = Raises(c, "ingest", "embed")
    /\ tx' = [tx EXCEPT ![c] = AfterFinally(c, tx[c])]
    /\ pc' = [pc EXCEPT ![c] = "idle"]
    /\ job' = [job EXCEPT ![c] = NoJob]
    /\ UNCHANGED <<db, del, issued>>

\* Lines 236-246: save_embedding of chunk k; after the last one, return
\* len(chunks).
IngestSave(c) ==
    /\ pc[c] = "ing_save"
    /\ ~Locked(c)
    /\ SaveRowid(c) <= MaxId
    /\ db' = SaveCommitted(c, ChunkArgs(job[c].page, job[c].k))
    /\ tx' = [tx EXCEPT ![c] = NoTx]
    /\ issued' = SaveRowid(c)
    /\ IF job[c].k = Len(ChunkNotionPage(job[c].page))
       THEN /\ last' = Returns(c, "ingest", IngestArgs(c), "count",
                                Len(ChunkNotionPage(job[c].page)))
            /\ pc' = [pc EXCEPT ![c] = "idle"]
            /\ job' = [job EXCEPT ![c] = NoJob]
       ELSE /\ job' = [job EXCEPT ![c].k = @ + 1]
            /\ UNCHANGED <<pc, last>>
    /\ UNCHANGED del

\* save_embedding of chunk k raises at the INSERT into vec_embeddings; the
\* exception leaves embed_single_notion_page through `finally`.
IngestSaveRaises(c) ==
    /\ pc[c] = "ing_save"
    /\ ~Locked(c)
    /\ SaveRowid(c) <= MaxId
    /\ tx' = [tx EXCEPT ![c] =
                 AfterFinally(c, SaveAbandoned(c, ChunkArgs(job[c].page, job[c].k)))]
    /\ last' = Raises(c, "ingest", "insert_vec")
    /\ pc' = [pc EXCEPT ![c] = "idle"]
    /\ job' = [job EXCEPT ![c] = NoJob]
    /\ UNCHANGED <<db, del, issued>>

\* save_embedding of chunk k raises because the database is locked.
IngestSaveLocked(c) ==
    /\ pc[c] = "ing_save"
    /\ Locked(c)
    /\ last' = Raises(c, "ingest", "insert_meta")
    /\ tx' = [tx EXCEPT ![c] = AfterFinally(c, tx[c])]
    /\ pc' = [pc EXCEPT ![c] = "idle"]
    /\ job' = [job EXCEPT ![c] = NoJob]
    /\ UNCHANGED <<db, del, issued>>

(***************************************************************************)
(* Search (vector_db.py).  For one query text, corpus gives what the two    *)
(* indexes hold per rowid: whether embeddings_fts matches the text and the  *)
(* raw bm25() score if it does (negative, lower is better), and the cosine  *)
(* distance of the record's vector to the query's embedding.  Scores are    *)
(* exact rationals n/d with d > 0.  The query texts contain no double       *)
(* quote, the one character bm25_search rewrites.                           *)
(***************************************************************************)
Q(n, d) == [n |-> n, d |-> d]
QEq(a, b) == a.n * b.d = b.n * a.d
QLess(a, b) == a.n * b.d < b.n * a.d
QAdd(a, b) == Q(a.n * b.d + b.n * a.d, a.d * b.d)
QSub(a, b) == Q(a.n * b.d - b.n * a.d, a.d * b.d)
QMul(a, b) == Q(a.n * b.n, a.d * b.d)
\* a / b for b > 0
QDiv(a, b) == Q(a.n * b.d, a.d * b.n)
QInt(i) == Q(i, 1)
QMin(S) == CHOOSE m \in S : \A x \in S : ~QLess(x, m)
QMax(S) == CHOOSE m \in S : \A x \in S : ~QLess(m, x)

Min(S) == CHOOSE m \in S : \A n \in S : m <= n
Range(f) == {f[x] : x \in DOMAIN f}

KeywordWeightTenth == Q(1, 10)

\* settings.rag_keyword_weight and settings.rag_semantic_weight: 0.4 and 0.6
rag_keyword_weight == Q(4, 10)
rag_semantic_weight == Q(6, 10)

\* limit=100: the default of bm25_search and the argument hybrid_search
\* passes to semantic_search.
Bm25DefaultLimit == 100
SemanticLimit == 100

\* source_types: Optional[list[str]].  None and [] are falsy.
NoTypes == [none |-> TRUE, list |-> <<>>]
Types(list) == [none |-> FALSE, list |-> list]
TypesGiven(source_types) == ~source_types.none /\ source_types.list # <<>>

\* The query texts the FTS5 parser rejects with sqlite3.OperationalError:
\* the empty string and a dangling operator.
Fts5Rejects == {"", "coffee AND"}

\* The first n rowids of S: FTS5 returns the matches of a query without
\* ORDER BY by ascending rowid, and LIMIT keeps the first n.
FirstByRowid(S, n) == {i \in S : Cardinality({j \in S : j < i}) < n}

\* bm25_search: rowid -> raw score.  sqlite3.OperationalError, whether the
\* parser raises it or the storage does (fault = "lexical": database locked,
\* disk I/O error), is caught and {} returned.
Bm25Search(store, query, limit, source_types, fault) ==
    IF query \in Fts5Rejects \/ fault = "lexical"
    THEN <<>>
    ELSE LET hits == {i \in DOMAIN store :
                        /\ store[i].match
                        /\ TypesGiven(source_types) =>
                             store[i].source_type \in Range(source_types.list)}
         IN [i \in FirstByRowid(hits, limit) |-> store[i].bm25]

\* ORDER BY distance says nothing about rows of equal distance: sqlite-vec
\* may give them in either order of rowid.
Ties == {"asc", "desc"}

\* Record i comes before record j in the vec0 scan ordered by distance.
Closer(store, tie, i, j) ==
    \/ store[i].distance < store[j].distance
    \/ /\ store[i].distance = store[j].distance
       /\ IF tie = "asc" THEN i < j ELSE j < i

\* vec_embeddings WHERE embedding MATCH ? AND k = ? ORDER BY distance: the k
\* nearest rowids, nearest first.
Knn(store, k, tie) ==
    [r \in 1..Min({k, Cardinality(DOMAIN store)}) |->
        CHOOSE i \in DOMAIN store :
            Cardinality({j \in DOMAIN store : Closer(store, tie, j, i)}) = r - 1]

\* semantic_search: the rowids in the order of the returned dict.  With
\* source_types the k = limit * 2 nearest records are joined with
\* embeddings_meta and filtered by type; the first `limit` rows are kept.
SemanticSearch(store, limit, source_types, tie) ==
    LET rows == IF TypesGiven(source_types)
                THEN SelectSeq(Knn(store, limit * 2, tie),
                               LAMBDA i : store[i].source_type
                                            \in Range(source_types.list))
                ELSE Knn(store, limit, tie)
    IN SubSeq(rows, 1, Min({limit, Len(rows)}))

NormalizeBm25Inverted(bm25_scores) ==
    IF DOMAIN bm25_scores = {} THEN <<>>
    ELSE LET min_score == Min(Range(bm25_scores))
             max_score == Max(Range(bm25_scores))
         IN IF min_score = max_score
            THEN [i \in DOMAIN bm25_scores |-> QInt(1)]
            ELSE [i \in DOMAIN bm25_scores |->
                     QDiv(QInt(bm25_scores[i] - min_score),
                          QInt(max_score - min_score))]

\* normalize_bm25_scores
NormalizeBm25Scores(bm25_scores) ==
    IF DOMAIN bm25_scores = {} THEN <<>>
    ELSE LET min_score == Min(Range(bm25_scores))
             max_score == Max(Range(bm25_scores))
         IN IF min_score = max_score
            THEN [i \in DOMAIN bm25_scores |-> QInt(1)]
            ELSE [i \in DOMAIN bm25_scores |->
                     QDiv(QInt(max_score - bm25_scores[i]),
                          QInt(max_score - min_score))]

\* normalize_distances
NormalizeDistances(distances) ==
    IF DOMAIN distances = {} THEN <<>>
    ELSE LET similarities == [i \in DOMAIN distances |->
                                 QSub(QInt(1), Q(distances[i], 2))]
             min_sim == QMin(Range(similarities))
             max_sim == QMax(Range(similarities))
         IN IF QEq(min_sim, max_sim)
            THEN [i \in DOMAIN similarities |-> QInt(1)]
            ELSE [i \in DOMAIN similarities |->
                     QDiv(QSub(similarities[i], min_sim),
                          QSub(max_sim, min_sim))]

SetIterationByHistory(S) ==
    [r \in 1..Cardinality(S) |->
        CHOOSE i \in S :
            Cardinality({j \in S : IF searched.op = "search"
                                   THEN j % 8 > i % 8
                                   ELSE j % 8 < i % 8}) = r - 1]

\* all_ids = set(...) | set(...); for id in all_ids: CPython keeps a set of
\* at most four ints in a table of 8 slots, int i in slot i % 8 (the rowids
\* of the model fall in different slots), and iterates by slot.
PySetMinSize == 8
SetIteration(S) ==
    [r \in 1..Cardinality(S) |->
        CHOOSE i \in S :
            Cardinality({j \in S : j % PySetMinSize < i % PySetMinSize}) = r - 1]

\* What a call gives back: a list of rows, or an exception raised at `at`.
Results(rows) == [kind |-> "results", results |-> rows, at |-> "none"]
Raised(at) == [kind |-> "raise", results |-> <<>>, at |-> at]

ScoredSwapped(store, id, bm25_normalized, semantic_normalized, keyword_weight, semantic_weight) ==
    LET bm25_score == IF id \in DOMAIN bm25_normalized
                      THEN bm25_normalized[id] ELSE [n |-> 0, d |-> 1]
        semantic_score == IF id \in DOMAIN semantic_normalized
                          THEN semantic_normalized[id] ELSE [n |-> 0, d |-> 1]
    IN [id |-> id,
        source_type |-> store[id].source_type,
        bm25_score |-> bm25_score,
        semantic_score |-> semantic_score,
        final_score |-> QAdd(QMul(semantic_weight, bm25_score),
                             QMul(keyword_weight, semantic_score))]

\* Step 5 of hybrid_search: the dict appended for one candidate id.
ScoredResult(store, id, bm25_normalized, semantic_normalized, keyword_weight, semantic_weight) ==
    LET bm25_score == IF id \in DOMAIN bm25_normalized
                      THEN bm25_normalized[id] ELSE QInt(0)
        semantic_score == IF id \in DOMAIN semantic_normalized
                          THEN semantic_normalized[id] ELSE QInt(0)
    IN [id |-> id,
        source_type |-> store[id].source_type,
        bm25_score |-> bm25_score,
        semantic_score |-> semantic_score,
        final_score |-> QAdd(QMul(keyword_weight, bm25_score),
                             QMul(semantic_weight, semantic_score))]

SortAscending(rows) ==
    LET Before(p, q) ==
            \/ QLess(rows[p].final_score, rows[q].final_score)
            \/ /\ QEq(rows[p].final_score, rows[q].final_score)
               /\ p < q
    IN [r \in DOMAIN rows |->
           rows[CHOOSE p \in DOMAIN rows :
                   Cardinality({q \in DOMAIN rows : Before(q, p)}) = r - 1]]

\* list.sort(key=final_score, reverse=True): descending and stable, rows of
\* equal final_score keep the order they had.
SortByFinalScore(rows) ==
    LET Before(p, q) ==
            \/ QLess(rows[q].final_score, rows[p].final_score)
            \/ /\ QEq(rows[p].final_score, rows[q].final_score)
               /\ p < q
    IN [r \in DOMAIN rows |->
           rows[CHOOSE p \in DOMAIN rows :
                   Cardinality({q \in DOMAIN rows : Before(q, p)}) = r - 1]]

ScoredInBoth(store, a, tie) ==
    LET keyword_weight == IF a.keyword_weight = NoArgs
                          THEN rag_keyword_weight ELSE a.keyword_weight
        semantic_weight == IF a.semantic_weight = NoArgs
                           THEN rag_semantic_weight ELSE a.semantic_weight
        bm25_normalized ==
            NormalizeBm25Scores(Bm25Search(store, a.query, Bm25DefaultLimit,
                                           a.source_types, a.fault))
        nearest == SemanticSearch(store, SemanticLimit, a.source_types, tie)
        semantic_normalized ==
            NormalizeDistances([i \in Range(nearest) |-> store[i].distance])
        order == SetIteration(DOMAIN bm25_normalized \cap DOMAIN semantic_normalized)
    IN [k \in DOMAIN order |->
           ScoredResult(store, order[k], bm25_normalized,
                        semantic_normalized, keyword_weight, semantic_weight)]

\* Steps 1 to 5 of hybrid_search: one scored row per candidate id, in the
\* order the set of ids is iterated.  fault names the store call that
\* raises; "lexical" is swallowed in bm25_search.
ScoredResults(store, a, tie) ==
    LET keyword_weight == IF a.keyword_weight = NoArgs
                          THEN rag_keyword_weight ELSE a.keyword_weight
        semantic_weight == IF a.semantic_weight = NoArgs
                           THEN rag_semantic_weight ELSE a.semantic_weight
        bm25_raw == Bm25Search(store, a.query, Bm25DefaultLimit,
                               a.source_types, a.fault)
        bm25_normalized == NormalizeBm25Scores(bm25_raw)
        nearest == SemanticSearch(store, SemanticLimit, a.source_types, tie)
        semantic_raw == [i \in Range(nearest) |-> store[i].distance]
        semantic_normalized == NormalizeDistances(semantic_raw)
        all_ids == DOMAIN bm25_normalized \cup DOMAIN semantic_normalized
        order == SetIteration(all_ids)
    IN [k \in DOMAIN order |->
           ScoredResult(store, order[k], bm25_normalized,
                        semantic_normalized, keyword_weight, semantic_weight)]

\* hybrid_search.  A failure of the vector query or of the metadata query
\* leaves hybrid_search as an exception; the metadata query is issued only
\* when there is a candidate.
HybridSearch(store, a, tie) ==
    LET scored_results == ScoredResults(store, a, tie)
        sorted == SortByFinalScore(scored_results)
    IN IF a.fault = "vector" THEN Raised("semantic_search")
       ELSE IF Len(scored_results) = 0 THEN Results(<<>>)
       ELSE IF a.fault = "metadata" THEN Raised("get_metadata_by_ids")
       ELSE Results(SubSeq(sorted, 1, Min({a.top_k, Len(sorted)})))

\* The rowids a store of the model may hold, and what the indexes may hold
\* for one of them.
SearchIds == {1, 2, 8}
Entries ==
    [source_type : {SOURCE_BUSINESS_DOC, SOURCE_POST},
     match : {TRUE}, bm25 : {-2, -1}, distance : {0, 1, 2}]
    \cup
    [source_type : {SOURCE_BUSINESS_DOC, SOURCE_POST},
     match : {FALSE}, bm25 : {0}, distance : {0, 1, 2}]
\* Rowid 1 is a business document, rowid 8 a post, rowid 2 either.
TypesOf(id) ==
    IF id = 1 THEN {SOURCE_BUSINESS_DOC}
    ELSE IF id = 8 THEN {SOURCE_POST}
    ELSE {SOURCE_BUSINESS_DOC, SOURCE_POST}
Corpora ==
    UNION {{store \in [S -> Entries] :
               \A id \in S : store[id].source_type \in TypesOf(id)} :
           S \in SUBSET SearchIds}

\* The arguments of hybrid_search.
SearchArgs(query, keyword_weight, semantic_weight, top_k, source_types, fault) ==
    [query |-> query, keyword_weight |-> keyword_weight,
     semantic_weight |-> semantic_weight, top_k |-> top_k,
     source_types |-> source_types, fault |-> fault]

SearchInputs ==
    {SearchArgs("coffee", NoArgs, NoArgs, k, NoTypes, "none") : k \in {1, 2}}
    \cup
    {SearchArgs("coffee", QInt(1), QInt(0), 3, NoTypes, "none"),
     SearchArgs("coffee", QInt(0), QInt(1), 3, NoTypes, "none"),
     SearchArgs("coffee", NoArgs, NoArgs, 2, Types(<<SOURCE_POST>>), "none"),
     SearchArgs("coffee", NoArgs, NoArgs, 2, Types(<<"bogus">>), "none"),
     SearchArgs("", NoArgs, NoArgs, 2, NoTypes, "none"),
     SearchArgs("coffee AND", NoArgs, NoArgs, 2, NoTypes, "none"),
     SearchArgs("coffee", NoArgs, NoArgs, 2, NoTypes, "lexical"),
     SearchArgs("coffee", NoArgs, NoArgs, 2, NoTypes, "vector"),
     SearchArgs("coffee", NoArgs, NoArgs, 2, NoTypes, "metadata")}

\* The arguments of semantic_search.
VectorInputs ==
    [limit : {1, 2}, source_types : {NoTypes, Types(<<SOURCE_POST>>)}]

\* A caller of hybrid_search (retrieve_context, or a direct call with
\* weights).
HybridSearchCall ==
    /\ \E a \in SearchInputs, tie \in Ties :
          searched' = [op |-> "search", args |-> a,
                       out |-> HybridSearch(corpus, a, tie),
                       again |-> searched.op = "search" /\ searched.args = a]
    /\ UNCHANGED corpus
    /\ UNCHANGED <<wvars, xvars>>

\* A caller of semantic_search.
SemanticSearchCall ==
    /\ \E a \in VectorInputs, tie \in Ties :
          LET rows == SemanticSearch(corpus, a.limit, a.source_types, tie)
          IN searched' =
               [op |-> "semantic", args |-> a, again |-> FALSE,
                out |-> Results([k \in DOMAIN rows |->
                                   [id |-> rows[k],
                                    distance |-> corpus[rows[k]].distance]])]
    /\ UNCHANGED corpus
    /\ UNCHANGED <<wvars, xvars>>

\* The arguments of bm25_search.
LexicalInputs ==
    [query : {"coffee"}, limit : {1, 2, Bm25DefaultLimit},
     source_types : {NoTypes, Types(<<SOURCE_POST>>)}]

\* A caller of bm25_search.
Bm25SearchCall ==
    /\ \E a \in LexicalInputs :
          searched' =
               [op |-> "bm25", args |-> a, again |-> FALSE,
                out |-> [kind |-> "scores",
                         scores |-> Bm25Search(corpus, a.query, a.limit,
                                               a.source_types, "none")]]
    /\ UNCHANGED corpus
    /\ UNCHANGED <<wvars, xvars>>

(***************************************************************************)
(* format_context_for_prompt (rag.py).  A text is its label and its        *)
(* length; headers and separators are the strings the code writes.         *)
(***************************************************************************)
\* str(i) for an int i >= 0
DigitStr(d) ==
    CASE d = 0 -> "0" [] d = 1 -> "1" [] d = 2 -> "2" [] d = 3 -> "3"
      [] d = 4 -> "4" [] d = 5 -> "5" [] d = 6 -> "6" [] d = 7 -> "7"
      [] d = 8 -> "8" [] d = 9 -> "9"
RECURSIVE IntStr(_)
IntStr(i) == IF i < 10 THEN DigitStr(i) ELSE IntStr(i \div 10) \o DigitStr(i % 10)

\* f"{x:.2f}" for a score x >= 0: x rounded to hundredths.
FormatScore(x) ==
    LET hundredths == (2 * 100 * x.n + x.d) \div (2 * x.d)
    IN IntStr(hundredths \div 100) \o "."
          \o DigitStr((hundredths \div 10) % 10) \o DigitStr(hundredths % 10)

\* _get_source_label
GetSourceLabel(source_type) ==
    IF source_type = SOURCE_BUSINESS_DOC THEN "Business Documentation"
    ELSE IF source_type = SOURCE_POST THEN "Previous Post"
    ELSE IF source_type = SOURCE_REPLY THEN "Previous Reply"
    ELSE source_type

\* header = f"[{i}. {source_label}] (relevance: {result['final_score']:.2f})"
EntryHeader(i, result) ==
    "[" \o IntStr(i) \o ". " \o GetSourceLabel(result.source_type)
        \o "] (relevance: " \o FormatScore(result.final_score) \o ")"

\* content[: available - 3] + "..."
Truncated(content, available) ==
    [s |-> content.s \o "...", n |-> (available - 3) + 3]

\* The for loop of format_context_for_prompt from result i on.
RECURSIVE FormatLoop(_, _, _, _, _)
FormatLoop(results, i, context_parts, chars_used, max_chars) ==
    IF i > Len(results) THEN context_parts
    ELSE LET header == EntryHeader(i, results[i])
             available == max_chars - chars_used - Len(header) - 10
             content == IF results[i].content.n > available
                        THEN Truncated(results[i].content, available)
                        ELSE results[i].content
             entry == Cat(Cat(Cat(Txt(header), Txt("\n")), content), Txt("\n"))
         IN IF available <= 100 THEN context_parts
            ELSE FormatLoop(results, i + 1, Append(context_parts, entry),
                            chars_used + entry.n, max_chars)

\* format_context_for_prompt: the text returned and the number of entries
\* in it.
FormatContextForPrompt(results, max_chars) ==
    IF Len(results) = 0
    THEN [text |-> Txt("No relevant context found."), entries |-> 0]
    ELSE LET context_parts == FormatLoop(results, 1, <<>>, 0, max_chars)
         IN [text |-> Join(Txt("\n"), context_parts), entries |-> Len(context_parts)]

\* The result lists handed to the formatter: up to MaxResults rows of one
\* source type, all of one short content but the last.
MaxResults == 11
FormatInputs ==
    {[results |-> [i \in 1..n |->
                     [source_type |-> t, final_score |-> Q(6, 10),
                      content |-> IF i < n THEN [s |-> "<short>", n |-> short]
                                           ELSE [s |-> "<long>", n |-> long]]],
      max_chars |-> m] :
        n \in 0..MaxResults, t \in {SOURCE_BUSINESS_DOC, SOURCE_POST, SOURCE_REPLY, "note"},
        short \in {0, 40}, long \in {0, 300, 5000}, m \in {0, 120, 200, 4000}}

\* A caller of format_context_for_prompt.
FormatCall ==
    /\ applied.op = "given"
    /\ applied' = [op |-> "format_context_for_prompt", args |-> applied.args,
                   out |-> FormatContextForPrompt(applied.args.results,
                                                  applied.args.max_chars)]
    /\ UNCHANGED <<wvars, svars, emb>>

(***************************************************************************)
(* Callers of the chunker.                                                 *)
(***************************************************************************)
\* The pieces between the blank-line breaks of a document: at position i a
\* blank piece, a header or a paragraph of text.
MaxPieces == 4
PieceAt(i) ==
    {Para("", 0, None),
     Para("# H" \o IntStr(i), 4, "H" \o IntStr(i))}
    \cup {Para("<p" \o IntStr(i) \o ">", n, None) : n \in {400, 1000, 1200, 2500}}
RECURSIVE DocumentsOf(_)
DocumentsOf(n) ==
    IF n = 0 THEN {<<>>}
    ELSE {Append(content, piece) : content \in DocumentsOf(n - 1), piece \in PieceAt(n)}
Documents == UNION {DocumentsOf(n) : n \in 0..MaxPieces}
ChunkInputs ==
    [content : Documents, title : {"Seasonal Blend", ""}, source_id : {"page-42"}]

\* A caller of chunk_business_doc with the default budgets.
ChunkCall ==
    /\ applied.op = "given"
    /\ applied' = [op |-> "chunk_business_doc", args |-> applied.args,
                   out |-> ChunkBusinessDoc(applied.args.content, applied.args.title,
                                            applied.args.source_id,
                                            MAX_CHUNK_TOKENS, MIN_CHUNK_TOKENS)]
    /\ UNCHANGED <<wvars, svars, emb>>

(***************************************************************************)
(* _get_embedding_model (vector_db.py), called by generate_embedding and   *)
(* generate_embeddings_batch on any thread.  No lock guards the global:    *)
(* the test, the construction and the assignment are separate steps.       *)
(***************************************************************************)
Moved(t, at, fresh, got) ==
    [emb.th EXCEPT ![t] = [at |-> at, fresh |-> fresh, got |-> got]]

\* Thread t calls generate_embedding for the first time.
EmbedCall(t) ==
    /\ emb.th[t].at = "idle"
    /\ emb' = [emb EXCEPT !.th = Moved(t, "test", 0, 0)]
    /\ UNCHANGED <<wvars, svars, applied>>

\* if _embedding_model is None:
ModelTest(t) ==
    /\ emb.th[t].at = "test"
    /\ emb' = [emb EXCEPT !.th = Moved(t, IF emb.model = 0 THEN "load" ELSE "return", 0, 0)]
    /\ UNCHANGED <<wvars, svars, applied>>

\* TextEmbedding(model_name=...): a new instance.
ModelLoad(t) ==
    /\ emb.th[t].at = "load"
    /\ emb' = [emb EXCEPT !.made = emb.made + 1,
                          !.th = Moved(t, "store", emb.made + 1, 0)]
    /\ UNCHANGED <<wvars, svars, applied>>

\* _embedding_model = <the instance>
ModelStore(t) ==
    /\ emb.th[t].at = "store"
    /\ emb' = [emb EXCEPT !.model = emb.th[t].fresh,
                          !.th = Moved(t, "return", emb.th[t].fresh, 0)]
    /\ UNCHANGED <<wvars, svars, applied>>

\* return _embedding_model; the caller embeds with the instance it got.
ModelReturn(t) ==
    /\ emb.th[t].at = "return"
    /\ emb' = [emb EXCEPT !.th = Moved(t, "done", emb.th[t].fresh, emb.model)]
    /\ UNCHANGED <<wvars, svars, applied>>

(***************************************************************************)
(* Re-opening and reading the store: init_vector_db on the database file   *)
(* that exists already, get_metadata_by_ids, get_embedding_stats and       *)
(* retrieve_context (rag.py), each on a connection of its own or a given   *)
(* one.                                                                    *)
(***************************************************************************)
InitVectorDbRecreating(v) == EmptyView

\* init_vector_db: every statement is CREATE ... IF NOT EXISTS, so a table,
\* virtual table, trigger or index that exists is kept as it is; commit.
InitVectorDb(v) ==
    [meta |-> v.meta, vec |-> v.vec, fts |-> v.fts, seq |-> v.seq]

\* What the two indexes hold for a query, given the lexical entries that
\* match it: one row per vector entry.  A record's lexical score and its
\* distance to the query are taken equal for all records.
Indexed(v, hits) ==
    [i \in DOMAIN v.vec \cap DOMAIN v.meta |->
        [source_type |-> v.meta[i].source_type,
         match |-> i \in hits, bm25 |-> IF i \in hits THEN -1 ELSE 0,
         distance |-> 1]]

\* What a read gives back.
ReadOut(op, a, out) == [op |-> op, args |-> a, out |-> out, again |-> FALSE]

\* get_vector_db_connection on an existing database: a new connection.
Reopen(c) ==
    /\ pc[c] = "idle"
    /\ ~tx[c].open
    /\ db' = InitVectorDb(db)
    /\ searched' = ReadOut("reopen", NoArgs, NoArgs)
    /\ UNCHANGED <<tx, pc, del, job, last, issued, corpus, xvars>>

\* A caller of get_metadata_by_ids.
GetRecords(c) ==
    /\ \E want \in {{1}, {1, 2}} :
          searched' = ReadOut("get", [ids |-> want],
                              [records |-> GetMetadataByIds(View(c), want)])
    /\ UNCHANGED <<wvars, corpus, xvars>>

\* A caller of get_embedding_stats (get_rag_stats).
Stats(c) ==
    /\ searched' = ReadOut("stats", NoArgs, GetEmbeddingStats(View(c)))
    /\ UNCHANGED <<wvars, corpus, xvars>>

\* The arguments retrieve_context and retrieve_post_history pass on.
StoreSearches ==
    {SearchArgs("coffee", NoArgs, NoArgs, 10, NoTypes, "none"),
     SearchArgs("coffee", NoArgs, NoArgs, 5, Types(<<SOURCE_POST>>), "none")}

\* retrieve_context on connection c: generate_embedding, hybrid_search.
RetrieveContext(c) ==
    /\ \E a \in StoreSearches, tie \in Ties, hits \in {{}, DOMAIN View(c).fts} :
          searched' = ReadOut("search", a,
                              HybridSearch(Indexed(View(c), hits), a, tie))
    /\ UNCHANGED <<wvars, corpus, xvars>>

(***************************************************************************)
(* embed_post and embed_reply (rag.py): one chunk, one embedding, one      *)
(* save_embedding.  Every call site leaves conn=None: the call opens a     *)
(* connection of its own and closes it in `finally`, which rolls back what *)
(* a failed save left uncommitted.  c names the caller.                    *)
(***************************************************************************)
\* dict.update: the items of `metadata` replace those of the same key.
Updated(items, metadata) ==
    IF Truthy(metadata)
    THEN {i \in items : \A j \in metadata.items : j.k # i.k} \cup metadata.items
    ELSE items

\* create_post_chunk
CreatePostChunk(post_content, post_id, metadata) ==
    [content |-> post_content.s,
     metadata |-> PyDict(Updated(
        {PyItem("post_id", "str", post_id),
         PyItem("estimated_tokens", "int", EstimateTokens(post_content))},
        metadata))]

\* create_reply_chunk
CreateReplyChunk(reply_content, reply_id, original_post_id, metadata) ==
    [content |-> reply_content.s,
     metadata |-> PyDict(Updated(
        {PyItem("reply_id", "str", reply_id),
         IF original_post_id = None
         THEN PyItem("original_post_id", "NoneType", None)
         ELSE PyItem("original_post_id", "str", original_post_id),
         PyItem("estimated_tokens", "int", EstimateTokens(reply_content))},
        metadata))]

\* The calls of embed_post and embed_reply.
EmbedInputs ==
    [fn : {"embed_post"}, content : {Txt("New blend today")}, id : {"p1"},
     original_post_id : {None},
     metadata : {PyNoneDict,
                 PyDict({PyItem("mastodon_url", "str", "https://m/p1")})}]
    \cup
    [fn : {"embed_reply"}, content : {Txt("Thanks!")}, id : {"r1"},
     original_post_id : {None, "p1"},
     metadata : {PyNoneDict}]

EmbedRecordAsPost(a) ==
    LET chunk == CreatePostChunk(a.content, a.id, a.metadata)
    IN [source_type |-> SOURCE_POST, source_id |-> a.id,
        content |-> chunk.content, metadata |-> chunk.metadata]

\* The arguments the call hands to save_embedding.
EmbedRecord(a) ==
    LET chunk == IF a.fn = "embed_post"
                 THEN CreatePostChunk(a.content, a.id, a.metadata)
                 ELSE CreateReplyChunk(a.content, a.id, a.original_post_id,
                                       a.metadata)
    IN [source_type |-> IF a.fn = "embed_post" THEN SOURCE_POST ELSE SOURCE_REPLY,
        source_id |-> a.id, content |-> chunk.content,
        metadata |-> chunk.metadata]

\* The call returns the rowid of the record it saved.
Embed(c) ==
    /\ pc[c] = "idle"
    /\ \A o \in Conns : ~tx[o].open
    /\ NextRowid(db) <= MaxId
    /\ \E a \in EmbedInputs :
          LET r == EmbedRecord(a)
              v1 == InsertMeta(db, r.source_type, r.source_id, r.content,
                               r.metadata)
          IN /\ db' = InsertVec(v1, v1.seq, GenerateEmbedding(r.content))
             /\ last' = Returns(c, a.fn, a, "rowid", v1.seq)
             /\ issued' = v1.seq
    /\ UNCHANGED <<tx, pc, del, job, svars, xvars>>

\* The INSERT into vec_embeddings raises; `finally` closes the connection
\* and the metadata row is rolled back with it.
EmbedRaises(c) ==
    /\ pc[c] = "idle"
    /\ \A o \in Conns : ~tx[o].open
    /\ NextRowid(db) <= MaxId
    /\ last' = Raises(c, "embed", "insert_vec")
    /\ UNCHANGED <<db, tx, pc, del, job, issued, svars, xvars>>

\* Another connection holds the write lock: the INSERT into
\* embeddings_meta raises.
EmbedFindsLock(c) ==
    /\ pc[c] = "idle"
    /\ \E o \in Conns : tx[o].open
    /\ last' = Raises(c, "embed", "insert_meta")
    /\ UNCHANGED <<db, tx, pc, del, job, issued, svars, xvars>>

(***************************************************************************)
(* embed_notion_docs (rag.py): delete every business_doc record, then      *)
(* chunk, embed and save the parent page and each child page.  A failure   *)
(* inside a page is caught in _embed_notion_page and noted in errors; the  *)
(* loop goes on with the next page on the same connection.  st is the      *)
(* call's progress: what is committed (db), what its connection sees       *)
(* (view) and the stats dict.                                              *)
(***************************************************************************)
\* The pages Notion serves: the parent page gives two chunks, the child one.
ParentPage ==
    [id |-> "page-1", title |-> "About us",
     content |-> <<Para("<p1>", 1200, None), Para("<p2>", 1200, None)>>]
ChildPages ==
    << [id |-> "page-42", title |-> "Seasonal Blend",
        content |-> <<Para("<p3>", 300, None)>>] >>

\* What goes wrong during the call, if anything: the fetch of the parent
\* page or of the child pages, the batch embedding of a page, or the
\* INSERT into vec_embeddings for chunk k of a page.
NoFault == [at |-> "none", page |-> None, k |-> 0]
DocsInputs ==
    {NoFault,
     [at |-> "fetch_parent", page |-> None, k |-> 0],
     [at |-> "fetch_children", page |-> None, k |-> 0]}
    \cup [at : {"embed"}, page : {"page-1", "page-42"}, k : {0}]
    \cup {[at |-> "save", page |-> "page-1", k |-> 1],
          [at |-> "save", page |-> "page-1", k |-> 2],
          [at |-> "save", page |-> "page-42", k |-> 1]}

\* stats["errors"].append(...)
Failed(st, what, title) ==
    [st EXCEPT !.stats.errors = Append(@, [what |-> what, title |-> title])]

\* Lines 191-202: save chunk k and the chunks after it, then count the page.
RECURSIVE SaveChunks(_, _, _, _, _)
SaveChunks(st, page, chunks, k, fault) ==
    IF k > Len(chunks)
    THEN [st EXCEPT !.stats.pages_processed = @ + 1,
                    !.stats.chunks_created = @ + Len(chunks)]
    ELSE LET v1 == InsertMeta(st.view, SOURCE_BUSINESS_DOC, page.id,
                              chunks[k].content, chunks[k].metadata)
             v2 == InsertVec(v1, v1.seq, GenerateEmbedding(chunks[k].content))
         IN IF fault.at = "save" /\ fault.page = page.id /\ fault.k = k
            THEN Failed([st EXCEPT !.view = v1], "embed page", page.title)
            ELSE SaveChunks([st EXCEPT !.view = v2, !.db = v2],
                            page, chunks, k + 1, fault)

\* _embed_notion_page
EmbedNotionPage(st, page, fault) ==
    IF fault.at = "embed" /\ fault.page = page.id
    THEN Failed(st, "embed page", page.title)
    ELSE SaveChunks(st, page, ChunkNotionPage(page), 1, fault)

\* for page in child_pages: _embed_notion_page(conn, page, stats)
RECURSIVE EmbedPages(_, _, _, _)
EmbedPages(st, pages, i, fault) ==
    IF i > Len(pages) THEN st
    ELSE EmbedPages(EmbedNotionPage(st, pages[i], fault), pages, i + 1, fault)

\* embed_notion_docs on a connection of its own, from the database v.
EmbedNotionDocs(v, fault) ==
    LET ids == SelectIds(v, SOURCE_BUSINESS_DOC, None)
        v0 == DeleteMeta(DeleteVec(v, ids), ids)
        st0 == [db |-> v0, view |-> v0,
                stats |-> [pages_processed |-> 0, chunks_created |-> 0,
                           errors |-> <<>>,
                           previous_chunks_deleted |-> Cardinality(ids)]]
        st1 == IF fault.at = "fetch_parent"
               THEN Failed(st0, "fetch parent page", "")
               ELSE EmbedNotionPage(st0, ParentPage, fault)
    IN IF fault.at = "fetch_children"
       THEN Failed(st1, "fetch child pages", "")
       ELSE EmbedPages(st1, ChildPages, 1, fault)

\* A caller of embed_notion_docs (POST /rag/embed) while nobody else
\* writes; `finally` closes the connection and drops what is uncommitted.
EmbedNotionDocsCall(c) ==
    /\ pc[c] = "idle"
    /\ \A o \in Conns : ~tx[o].open
    /\ db.seq <= MaxId
    /\ \E fault \in DocsInputs :
          LET st == EmbedNotionDocs(db, fault)
          IN /\ db' = st.db
             /\ last' = Returns(c, "embed_notion_docs",
                                [fault |-> fault, stats |-> st.stats],
                                "chunks_created", st.stats.chunks_created)
             /\ issued' = Max({issued, st.db.seq})
    /\ UNCHANGED <<tx, pc, del, job, svars, xvars>>

(***************************************************************************)
(* hybrid_search on a connection of its own while another connection       *)
(* writes.  Each SELECT is a statement of its own: no transaction spans    *)
(* the two index queries and get_metadata_by_ids, so a commit of the       *)
(* writer can fall between them.                                           *)
(***************************************************************************)
\* Step 5 of hybrid_search with the record fields: meta = metadata.get(id, {})
\* and meta.get("content", ""), meta.get("source_type", "").
FetchedResult(metadata, id, bm25_normalized, semantic_normalized, keyword_weight, semantic_weight) ==
    LET bm25_score == IF id \in DOMAIN bm25_normalized
                      THEN bm25_normalized[id] ELSE QInt(0)
        semantic_score == IF id \in DOMAIN semantic_normalized
                          THEN semantic_normalized[id] ELSE QInt(0)
        found == id \in DOMAIN metadata
    IN [id |-> id,
        content |-> IF found THEN metadata[id].content ELSE "",
        source_type |-> IF found THEN metadata[id].source_type ELSE "",
        bm25_score |-> bm25_score,
        semantic_score |-> semantic_score,
        final_score |-> QAdd(QMul(keyword_weight, bm25_score),
                             QMul(semantic_weight, semantic_score))]

\* Steps 1 to 3: bm25_search and semantic_search read the indexes as they
\* are now; the candidates are kept in the call's frame.
HybridCandidates ==
    /\ searched.op # "candidates"
    /\ \E hits \in {{}, DOMAIN db.fts}, tie \in Ties :
          LET store == Indexed(db, hits)
              bm25_raw == Bm25Search(store, "coffee", Bm25DefaultLimit,
                                     NoTypes, "none")
              nearest == SemanticSearch(store, SemanticLimit, NoTypes, tie)
              semantic_raw == [i \in Range(nearest) |-> store[i].distance]
          IN searched' =
               [op |-> "candidates", args |-> NoArgs, again |-> FALSE,
                out |-> [kind |-> "candidates",
                         bm25 |-> NormalizeBm25Scores(bm25_raw),
                         semantic |-> NormalizeDistances(semantic_raw)]]
    /\ UNCHANGED <<wvars, corpus, xvars>>

\* Steps 3 to 6: get_metadata_by_ids reads embeddings_meta as it is now;
\* score, sort, cut to top_k = 10.
HybridFetch ==
    /\ searched.op = "candidates"
    /\ LET all_ids == DOMAIN searched.out.bm25 \cup DOMAIN searched.out.semantic
           metadata == GetMetadataByIds(db, all_ids)
           order == SetIteration(all_ids)
           scored_results ==
               [k \in DOMAIN order |->
                   FetchedResult(metadata, order[k], searched.out.bm25,
                                 searched.out.semantic, rag_keyword_weight,
                                 rag_semantic_weight)]
           sorted == SortByFinalScore(scored_results)
       IN searched' =
            [op |-> "search", args |-> NoArgs, again |-> FALSE,
             out |-> Results(SubSeq(sorted, 1, Min({10, Len(sorted)})))]
    /\ UNCHANGED <<wvars, corpus, xvars>>

(***************************************************************************)
(* The specifications.  Spec: the callers run one call at a time, on       *)
(* either connection.  IngestSpec: two processes run                       *)
(* embed_single_notion_page, each on its own connection, their statements  *)
(* interleaved in any order.                                               *)
(***************************************************************************)
\* No other connection is inside a call.
Alone(c) == \A o \in Conns \ {c} : pc[o] = "idle"

Next ==
    \/ \E c \in Conns : Alone(c) /\ SaveEmbedding(c) /\ UNCHANGED <<svars, xvars>>
    \/ \E c \in Conns : Alone(c) /\ SaveEmbeddingRaises(c) /\ UNCHANGED <<svars, xvars>>
    \/ \E c \in Conns : Alone(c) /\ SaveEmbeddingLocked(c) /\ UNCHANGED <<svars, xvars>>
    \/ \E c \in Conns : Alone(c) /\ DeleteSelect(c) /\ UNCHANGED <<svars, xvars>>
    \/ \E c \in Conns : Alone(c) /\ DeleteApply(c) /\ UNCHANGED <<svars, xvars>>
    \/ \E c \in Conns : Alone(c) /\ DeleteLocked(c) /\ UNCHANGED <<svars, xvars>>
    \/ \E c \in Conns : Alone(c) /\ Close(c) /\ UNCHANGED <<svars, xvars>>
    \/ \E c \in Conns : Alone(c) /\ IngestStart(c) /\ UNCHANGED <<svars, xvars>>
    \/ \E c \in Conns : Alone(c) /\ IngestDelete(c) /\ UNCHANGED <<svars, xvars>>
    \/ \E c \in Conns : Alone(c) /\ IngestDeleteLocked(c) /\ UNCHANGED <<svars, xvars>>
    \/ \E c \in Conns : Alone(c) /\ IngestChunk(c) /\ UNCHANGED <<svars, xvars>>
    \/ \E c \in Conns : Alone(c) /\ IngestEmbedRaises(c) /\ UNCHANGED <<svars, xvars>>
    \/ \E c \in Conns : Alone(c) /\ IngestSave(c) /\ UNCHANGED <<svars, xvars>>
    \/ \E c \in Conns : Alone(c) /\ IngestSaveRaises(c) /\ UNCHANGED <<svars, xvars>>
    \/ \E c \in Conns : Alone(c) /\ IngestSaveLocked(c) /\ UNCHANGED <<svars, xvars>>

Spec == Init /\ [][Next]_vars

IngestNext ==
    \/ \E c \in Conns : IngestStart(c) /\ UNCHANGED <<svars, xvars>>
    \/ \E c \in Conns : IngestDelete(c) /\ UNCHANGED <<svars, xvars>>
    \/ \E c \in Conns : IngestChunk(c) /\ UNCHANGED <<svars, xvars>>
    \/ \E c \in Conns : IngestEmbedRaises(c) /\ UNCHANGED <<svars, xvars>>
    \/ \E c \in Conns : IngestSave(c) /\ UNCHANGED <<svars, xvars>>
    \/ \E c \in Conns : IngestSaveRaises(c) /\ UNCHANGED <<svars, xvars>>

IngestSpec == Init /\ [][IngestNext]_vars

\* Every call runs to its end: no statement raises.
CompletedNext ==
    \/ \E c \in Conns : Alone(c) /\ SaveEmbedding(c) /\ UNCHANGED <<svars, xvars>>
    \/ \E c \in Conns : Alone(c) /\ DeleteSelect(c) /\ UNCHANGED <<svars, xvars>>
    \/ \E c \in Conns : Alone(c) /\ DeleteApply(c) /\ UNCHANGED <<svars, xvars>>
    \/ \E c \in Conns : Alone(c) /\ IngestStart(c) /\ UNCHANGED <<svars, xvars>>
    \/ \E c \in Conns : Alone(c) /\ IngestDelete(c) /\ UNCHANGED <<svars, xvars>>
    \/ \E c \in Conns : Alone(c) /\ IngestChunk(c) /\ UNCHANGED <<svars, xvars>>
    \/ \E c \in Conns : Alone(c) /\ IngestSave(c) /\ UNCHANGED <<svars, xvars>>

CompletedSpec == Init /\ [][CompletedNext]_vars

\* Searches against a store that nobody writes: any store of the model.
SearchInit ==
    /\ db = EmptyView
    /\ tx = [c \in Conns |-> NoTx]
    /\ pc = [c \in Conns |-> "idle"]
    /\ del = [c \in Conns |-> NoDelete]
    /\ job = [c \in Conns |-> NoJob]
    /\ last = NoCall
    /\ issued = 0
    /\ corpus \in Corpora
    /\ searched = NoSearch
    /\ applied = NoApplied
    /\ emb = NoModel

SearchNext ==
    \/ HybridSearchCall
    \/ SemanticSearchCall

SearchSpec == SearchInit /\ [][SearchNext]_vars

\* Lexical queries against any store of the model.
LexicalNext == Bm25SearchCall

LexicalSpec == SearchInit /\ [][LexicalNext]_vars

\* No call has touched the store, and none has searched it.
Untouched ==
    /\ db = EmptyView
    /\ tx = [c \in Conns |-> NoTx]
    /\ pc = [c \in Conns |-> "idle"]
    /\ del = [c \in Conns |-> NoDelete]
    /\ job = [c \in Conns |-> NoJob]
    /\ last = NoCall
    /\ issued = 0
    /\ corpus = EmptyCorpus
    /\ searched = NoSearch

\* Calls of the formatter, one for each result list and budget.
FormatInit ==
    Untouched /\ emb = NoModel /\ applied \in {Given(a) : a \in FormatInputs}

FormatNext ==
    \/ FormatCall

FormatSpec == FormatInit /\ [][FormatNext]_vars

\* Calls of the chunker, one for each document.
ChunkInit ==
    Untouched /\ emb = NoModel /\ applied \in {Given(a) : a \in ChunkInputs}

ChunkNext ==
    \/ ChunkCall

ChunkSpec == ChunkInit /\ [][ChunkNext]_vars

\* First calls of the embedder from several threads, their steps
\* interleaved in any order.
ModelNext ==
    \/ \E t \in Threads : EmbedCall(t)
    \/ \E t \in Threads : ModelTest(t)
    \/ \E t \in Threads : ModelLoad(t)
    \/ \E t \in Threads : ModelStore(t)
    \/ \E t \in Threads : ModelReturn(t)

ModelSpec == Init /\ [][ModelNext]_vars

\* Saves that complete, connections re-opened, and reads.
StoreNext ==
    \/ \E c \in Conns : SaveEmbedding(c) /\ UNCHANGED <<svars, xvars>>
    \/ \E c \in Conns : Reopen(c)
    \/ \E c \in Conns : GetRecords(c)
    \/ \E c \in Conns : Stats(c)
    \/ \E c \in Conns : RetrieveContext(c)

StoreSpec == Init /\ [][StoreNext]_vars

\* Posts and replies embedded by two callers, next to connections that
\* save records directly, fail and are closed.
EmbedNext ==
    \/ \E c \in Conns : Embed(c)
    \/ \E c \in Conns : EmbedRaises(c)
    \/ \E c \in Conns : EmbedFindsLock(c)
    \/ \E c \in Conns : SaveEmbedding(c) /\ UNCHANGED <<svars, xvars>>
    \/ \E c \in Conns : SaveEmbeddingRaises(c) /\ UNCHANGED <<svars, xvars>>
    \/ \E c \in Conns : Close(c) /\ UNCHANGED <<svars, xvars>>

EmbedSpec == Init /\ [][EmbedNext]_vars

\* The corpus embedded again and again, between saves of other records.
DocsNext ==
    \/ \E c \in Conns : SaveEmbedding(c) /\ UNCHANGED <<svars, xvars>>
    \/ \E c \in Conns : EmbedNotionDocsCall(c)

DocsSpec == Init /\ [][DocsNext]_vars

\* A reader searching while the connection c1 saves and deletes.
ConcurrentNext ==
    \/ SaveEmbedding("c1") /\ UNCHANGED <<svars, xvars>>
    \/ DeleteSelect("c1") /\ UNCHANGED <<svars, xvars>>
    \/ DeleteApply("c1") /\ UNCHANGED <<svars, xvars>>
    \/ HybridCandidates
    \/ HybridFetch

ConcurrentSpec == Init /\ [][ConcurrentNext]_vars

(***************************************************************************)
(* Properties.                                                             *)
(***************************************************************************)
\* The three structures of view v hold the same ids.
Joined(v) == DOMAIN v.meta = DOMAIN v.vec /\ DOMAIN v.meta = DOMAIN v.fts

\* The ids of the records of v with this source_type and source_id.
Records(v, source_type, source_id) ==
    {i \in DOMAIN v.meta : /\ v.meta[i].source_type = source_type
                           /\ v.meta[i].source_id = source_id}

\* The ids of the records of v with this source_type.
RecordsOfType(v, source_type) ==
    {i \in DOMAIN v.meta : v.meta[i].source_type = source_type}

\* This step ends a delete_embeddings_by_source call that returns its count.
DeleteReturns ==
    /\ last'.op = "delete"
    /\ last'.kind = "count"
    /\ last' # last \/ pc[last'.conn] = "delete"

\* Between views before and after, exactly the ids in gone left the three
\* structures, every other entry is as it was, and stats() counts the rest.
RemovedExactly(before, after, gone) ==
    /\ DOMAIN after.meta = DOMAIN before.meta \ gone
    /\ DOMAIN after.vec = DOMAIN before.vec \ gone
    /\ DOMAIN after.fts = DOMAIN before.fts \ gone
    /\ \A i \in DOMAIN after.meta : after.meta[i] = before.meta[i]
    /\ \A i \in DOMAIN after.vec : after.vec[i] = before.vec[i]
    /\ \A i \in DOMAIN after.fts : after.fts[i] = before.fts[i]
    /\ GetEmbeddingStats(after).total = Cardinality(DOMAIN before.meta \ gone)

\* C1: after any sequence of completed save_embedding and
\* delete_embeddings_by_source calls, the metadata table, the vector table
\* and the lexical index hold the same set of ids.
C1_StructuresJoined == Joined(db)

\* C1 witness: records were inserted, some were deleted, some remain.
C1_Witness ==
    /\ last.op = "delete"
    /\ last.value >= 1
    /\ DOMAIN db.meta # {}
    /\ Joined(db)

\* C2: a save_embedding call that raised after its metadata row was written
\* leaves no metadata or lexical entry without a vector entry in the
\* database, whatever commits later on that connection.
C2_NoPartialInsert ==
    \A i \in DOMAIN db.meta \cup DOMAIN db.fts : i \in DOMAIN db.vec

\* C3: delete_embeddings_by_source(t, s) with a source_id s supplied removes
\* exactly the records of source_type t whose source_id equals s, returns
\* their number and leaves every other record unchanged.
C3_DeleteBySourceExact ==
    [][\A c \in Conns :
         DeleteReturns /\ last'.conn = c /\ last'.args.source_id # None =>
           LET gone == Records(View(c), last'.args.source_type,
                               last'.args.source_id)
           IN /\ RemovedExactly(View(c), View(c)', gone)
              /\ last'.value = Cardinality(gone)]_vars

\* C4: delete_embeddings_by_source(t) without a source_id removes every
\* record of source_type t, whatever its source_id, and no record of another
\* source_type.
C4_DeleteByTypeExact ==
    [][\A c \in Conns :
         DeleteReturns /\ last'.conn = c /\ last'.args.source_id = None =>
           LET gone == RecordsOfType(View(c), last'.args.source_type)
           IN /\ RemovedExactly(View(c), View(c)', gone)
              /\ last'.value = Cardinality(gone)]_vars

\* C4 witness: a delete by type removed two records or more and records of
\* another type remain.
C4_Witness ==
    /\ last.op = "delete"
    /\ last.kind = "count"
    /\ last.args.source_id = None
    /\ last.value >= 2
    /\ DOMAIN db.meta # {}

\* This step ends a delete_embeddings_by_source call on c.
DeleteEnds(c) ==
    /\ last'.op = "delete"
    /\ last'.conn = c
    /\ pc'[c] = "idle"
    /\ last' # last \/ pc[c] = "delete"

\* The arguments of the delete call that this step ends on c.
DeleteArgs(c) ==
    IF pc[c] = "delete"
    THEN [source_type |-> del[c].source_type, source_id |-> del[c].source_id]
    ELSE last'.args

\* The records of v that a delete with arguments a is to remove.
Matching(v, a) ==
    IF a.source_id = None
    THEN RecordsOfType(v, a.source_type)
    ELSE Records(v, a.source_type, a.source_id)

\* The call that ended last was a delete on c with these arguments.
JustDeleted(c, a) ==
    /\ last.op = "delete"
    /\ last.kind = "count"
    /\ last.conn = c
    /\ last.args = a

\* This step ends a delete on c that returns 0 and changes nothing.
DeleteIsNoOp(c) ==
    /\ last'.kind = "count"
    /\ last'.value = 0
    /\ db' = db
    /\ View(c)' = View(c)

\* C5: delete_embeddings_by_source called twice in a row with the same
\* arguments returns 0 the second time and leaves the store unchanged; a
\* delete of a source without records returns 0, raises nothing and leaves
\* the store unchanged.
C5_DeleteIdempotent ==
    [][\A c \in Conns :
         /\ DeleteEnds(c)
         /\ \/ JustDeleted(c, DeleteArgs(c))
            \/ Matching(View(c), DeleteArgs(c)) = {}
         => DeleteIsNoOp(c)]_vars

\* This step ends embed_single_notion_page on c with a return value.
IngestReturns(c) ==
    /\ pc[c] \in {"ing_chunk", "ing_save"}
    /\ pc'[c] = "idle"
    /\ last'.kind = "count"

\* This step ends embed_single_notion_page on c with an exception raised
\* after the delete.
IngestRaisesAfterDelete(c) ==
    /\ pc[c] \in {"ing_chunk", "ing_save"}
    /\ pc'[c] = "idle"
    /\ last'.kind = "raise"

\* Record i of view v is chunk `chunk` of the page: its fields as
\* get_metadata_by_ids returns them, its vector and its lexical entry.
IsChunkRecord(v, i, page, chunk) ==
    /\ GetMetadataByIds(v, {i})[i] =
          [source_type |-> SOURCE_BUSINESS_DOC, source_id |-> page.id,
           content |-> chunk.content, metadata |-> chunk.metadata]
    /\ i \in DOMAIN v.vec
    /\ v.vec[i] = GenerateEmbedding(chunk.content)
    /\ i \in DOMAIN v.fts
    /\ v.fts[i].content = chunk.content

\* C6: when embed_single_notion_page returns, the records of
\* (business_doc, page.id) are one record per chunk of the page it was given
\* and nothing else, whatever the store held before.
C6_ReingestReplaces ==
    [][\A c \in Conns :
         IngestReturns(c) =>
           LET page == job[c].page
               chunks == ChunkNotionPage(page)
               recs == Records(db', SOURCE_BUSINESS_DOC, page.id)
           IN /\ last'.value = Len(chunks)
              /\ Cardinality(recs) = Len(chunks)
              /\ \A k \in DOMAIN chunks :
                    \E i \in recs : IsChunkRecord(db', i, page, chunks[k])]_vars

\* C6 witness: the one-chunk version of the page was ingested over the
\* records of an earlier version, and its record is the only one left.
C6_Witness ==
    /\ last.op = "ingest"
    /\ last.kind = "count"
    /\ last.value = 1
    /\ issued >= 2
    /\ Cardinality(Records(db, SOURCE_BUSINESS_DOC, last.args.page.id)) = 1

\* C7: when embed_single_notion_page raises after its delete, the store
\* holds no record of (business_doc, page.id).
C7_FailedIngestLeavesNothing ==
    [][\A c \in Conns :
         IngestRaisesAfterDelete(c) =>
           Records(db', SOURCE_BUSINESS_DOC, job[c].page.id) = {}]_vars

\* C8: once two interleaved embed_single_notion_page calls for one page are
\* over, the store holds no more records of the page than the chunking of
\* the call that returned last yields.
C8_IngestSerialized ==
    /\ \A c \in Conns : pc[c] = "idle"
    /\ last.op = "ingest"
    /\ last.kind = "count"
    => Cardinality(Records(db, SOURCE_BUSINESS_DOC, last.args.page.id))
         <= last.value

\* C9: the rowid a save_embedding call returns is greater than every rowid
\* returned before, and no step adds a record under a rowid that is not
\* greater than all of them: a returned rowid is never handed out again,
\* that of a deleted record included.
C9_RowidsIncrease ==
    [][/\ \A i \in DOMAIN db'.meta \ DOMAIN db.meta : i > issued
       /\ \A i \in DOMAIN db'.vec \ DOMAIN db.vec : i > issued
       /\ issued' # issued =>
             /\ issued' > issued
             /\ issued' \in DOMAIN db'.meta \ DOMAIN db.meta
       /\ last'.kind = "rowid" /\ last' # last =>
             /\ last'.value = issued'
             /\ last'.value > issued]_vars

\* C9 witness: a save returned a rowid after a record with a smaller rowid
\* was deleted.
C9_Witness ==
    /\ last.op = "save"
    /\ last.kind = "rowid"
    /\ last.value = issued
    /\ \E j \in 1..(issued - 1) : j \notin DOMAIN db.meta

\* This step ends a save_embedding call of a caller with a rowid.
SaveReturns ==
    /\ last'.op = "save"
    /\ last'.kind = "rowid"
    /\ issued' # issued

\* C10 as stated: get_metadata_by_ids on the rowid a save returned gives the
\* content, source_type, source_id and metadata that were saved, an absent
\* source_id and an absent or empty metadata included.
C10_RoundTripAsStated ==
    [][SaveReturns =>
         /\ last'.value \in DOMAIN GetMetadataByIds(db', {last'.value})
         /\ GetMetadataByIds(db', {last'.value})[last'.value] = last'.args]_vars

\* C10 amended: get_metadata_by_ids on the rowid a save returned gives the
\* content, source_type and source_id that were saved, and the metadata that
\* was saved when it is a mapping, the empty mapping when it is absent.
C10_RoundTrip ==
    [][SaveReturns =>
         /\ last'.value \in DOMAIN GetMetadataByIds(db', {last'.value})
         /\ GetMetadataByIds(db', {last'.value})[last'.value] =
              [last'.args EXCEPT
                 !.metadata = IF @.isNone THEN PyDict({}) ELSE @]]_vars

\* C10 witness: a record with a metadata mapping of four value types and an
\* empty source_id was saved and is in the store.
C10_Witness ==
    /\ last.op = "save"
    /\ last.kind = "rowid"
    /\ last.args.source_id = ""
    /\ Cardinality(last.args.metadata.items) = 4
    /\ last.value \in DOMAIN db.meta

(***************************************************************************)
(* Search.                                                                 *)
(***************************************************************************)
SearchReturns == searched.op = "search" /\ searched.out.kind = "results"
Rows == searched.out.results
RowIds == {Rows[p].id : p \in DOMAIN Rows}

\* The candidates of the completed search with their scores: the rows of
\* step 5, whatever order the vector index gives to equal distances.
CandidateRows ==
    UNION {Range(ScoredResults(corpus, searched.args, tie)) : tie \in Ties}
CandidateIds == {row.id : row \in CandidateRows}

\* C11: a search returns min(top_k, number of candidates) rows, no id
\* twice, in non-increasing order of final_score, and no candidate left out
\* has a strictly greater final_score than a row returned.
C11_TopKByFinalScore ==
    SearchReturns =>
        /\ Len(Rows) = Min({searched.args.top_k, Cardinality(CandidateIds)})
        /\ \A p, q \in DOMAIN Rows :
              p < q => /\ Rows[p].id # Rows[q].id
                       /\ ~QLess(Rows[p].final_score, Rows[q].final_score)
        /\ \A row \in CandidateRows :
              row.id \notin RowIds =>
                 \A p \in DOMAIN Rows :
                    ~QLess(Rows[p].final_score, row.final_score)

\* A search for two rows among three candidates of three different scores.
C11_Witness ==
    /\ SearchReturns
    /\ searched.args.top_k = 2
    /\ Cardinality(CandidateIds) = 3
    /\ Len(Rows) = 2
    /\ QLess(Rows[2].final_score, Rows[1].final_score)
    /\ \E row \in CandidateRows :
          row.id \notin RowIds /\ QLess(row.final_score, Rows[2].final_score)

\* C12: rows of equal final_score are ordered by ascending id, and of tied
\* candidates the one with the smaller id survives the truncation to top_k.
C12_TiesByAscendingId ==
    SearchReturns =>
        /\ \A p, q \in DOMAIN Rows :
              (p < q /\ QEq(Rows[p].final_score, Rows[q].final_score))
                 => Rows[p].id < Rows[q].id
        /\ \A row \in CandidateRows :
              row.id \notin RowIds =>
                 \A p \in DOMAIN Rows :
                    QEq(Rows[p].final_score, row.final_score)
                       => Rows[p].id < row.id

\* The ids the lexical query and the vector query of the completed search
\* gave.
LexicalIds ==
    DOMAIN Bm25Search(corpus, searched.args.query, Bm25DefaultLimit,
                      searched.args.source_types, searched.args.fault)
VectorIds ==
    UNION {Range(SemanticSearch(corpus, SemanticLimit,
                                searched.args.source_types, tie)) : tie \in Ties}

KeywordOnly ==
    /\ searched.args.keyword_weight = QInt(1)
    /\ searched.args.semantic_weight = QInt(0)
SemanticOnly ==
    /\ searched.args.keyword_weight = QInt(0)
    /\ searched.args.semantic_weight = QInt(1)

\* Row p is ranked strictly above row q.
StrictlyAbove(p, q) ==
    p < q /\ QLess(Rows[q].final_score, Rows[p].final_score)

\* id has the worst raw score of several lexical matches of different raw
\* scores (the least negative), or the greatest of several different
\* distances.
WorstLexical(id) ==
    /\ \A j \in LexicalIds : corpus[j].bm25 <= corpus[id].bm25
    /\ \E j \in LexicalIds : corpus[j].bm25 < corpus[id].bm25
WorstVector(id) ==
    /\ \A j \in VectorIds : corpus[j].distance <= corpus[id].distance
    /\ \E j \in VectorIds : corpus[j].distance < corpus[id].distance

DefaultWeights ==
    /\ searched.args.keyword_weight = NoArgs
    /\ searched.args.semantic_weight = NoArgs

\* The scored row of candidate id.
RowOf(id) == CHOOSE row \in CandidateRows : row.id = id

\* C14 as stated: with the default weights, a search whose query matches
\* exactly one record lexically returns that record first with
\* final_score > 0, whatever the distances of the records.
C14_SingleMatchFirstAsStated ==
    (SearchReturns /\ DefaultWeights) =>
        \A m \in LexicalIds :
            LexicalIds = {m} =>
                /\ Len(Rows) >= 1
                /\ Rows[1].id = m
                /\ QLess(QInt(0), Rows[1].final_score)

\* C14: with the default weights, the only lexical match of a query has a
\* final_score of at least the keyword weight 0.4; it is returned first when
\* its normalized vector score is above 1/3, and a nearer record precedes it
\* when its normalized vector score is below 1/3.
C14_SingleMatchFirst ==
    (SearchReturns /\ DefaultWeights) =>
        \A m \in LexicalIds :
            LexicalIds = {m} =>
                /\ ~QLess(RowOf(m).final_score, Q(4, 10))
                /\ QLess(Q(1, 3), RowOf(m).semantic_score)
                      => Rows[1].id = m /\ QLess(QInt(0), Rows[1].final_score)
                /\ QLess(RowOf(m).semantic_score, Q(1, 3))
                      => Rows[1].id # m

\* The only lexical match of three records is returned first although
\* another record is nearer to the query.
C14_Witness ==
    /\ SearchReturns /\ DefaultWeights
    /\ Cardinality(DOMAIN corpus) = 3
    /\ Cardinality(LexicalIds) = 1
    /\ Rows[1].id \in LexicalIds
    /\ \E id \in DOMAIN corpus :
          corpus[id].distance < corpus[Rows[1].id].distance

\* The weights and the normalized scores of the completed search, from its
\* arguments and the store.
KeywordWeight ==
    IF searched.args.keyword_weight = NoArgs
    THEN rag_keyword_weight ELSE searched.args.keyword_weight
SemanticWeight ==
    IF searched.args.semantic_weight = NoArgs
    THEN rag_semantic_weight ELSE searched.args.semantic_weight
LexicalNorm ==
    NormalizeBm25Scores([id \in LexicalIds |-> corpus[id].bm25])
VectorNorm ==
    NormalizeDistances([id \in VectorIds |-> corpus[id].distance])
LexicalScore(id) == IF id \in LexicalIds THEN LexicalNorm[id] ELSE QInt(0)
VectorScore(id) == IF id \in VectorIds THEN VectorNorm[id] ELSE QInt(0)

\* C15: every returned row is for an id of the union of the two result
\* sets and carries keyword_weight * lexical_norm + semantic_weight *
\* vector_norm, a score missing on one side counting as 0; an id of only one
\* set is a candidate like any other: nothing but the truncation to top_k
\* drops it.
C15_FusionFormula ==
    SearchReturns =>
        /\ \A p \in DOMAIN Rows :
              /\ Rows[p].id \in LexicalIds \cup VectorIds
              /\ QEq(Rows[p].bm25_score, LexicalScore(Rows[p].id))
              /\ QEq(Rows[p].semantic_score, VectorScore(Rows[p].id))
              /\ QEq(Rows[p].final_score,
                     QAdd(QMul(KeywordWeight, LexicalScore(Rows[p].id)),
                          QMul(SemanticWeight, VectorScore(Rows[p].id))))
        /\ CandidateIds = LexicalIds \cup VectorIds
        /\ Cardinality(LexicalIds \cup VectorIds) <= searched.args.top_k
              => RowIds = LexicalIds \cup VectorIds

\* A search returns a record of both result sets and a record that only
\* the vector query found, scored 0.0 on the lexical side and above 0 in all.
C15_Witness ==
    /\ SearchReturns
    /\ \E p, q \in DOMAIN Rows :
          /\ Rows[p].id \in LexicalIds \cap VectorIds
          /\ Rows[q].id \in VectorIds \ LexicalIds
          /\ QEq(Rows[q].bm25_score, QInt(0))
          /\ QLess(QInt(0), Rows[q].final_score)
          /\ QLess(QInt(0), Rows[p].bm25_score)
          /\ QLess(QInt(0), Rows[p].semantic_score)
          /\ QLess(Rows[p].semantic_score, QInt(1))

\* norm is a rank-preserving map of the raw scores (lower is better) of a
\* result set into [0, 1]: best to 1, worst to 0, all to 1 when all are equal.
RankPreserving(raw, norm) ==
    /\ DOMAIN norm = DOMAIN raw
    /\ \A i \in DOMAIN raw :
          /\ norm[i].d > 0
          /\ ~QLess(norm[i], QInt(0))
          /\ ~QLess(QInt(1), norm[i])
          /\ (\A j \in DOMAIN raw : raw[i] <= raw[j]) => QEq(norm[i], QInt(1))
          /\ (/\ \A j \in DOMAIN raw : raw[j] <= raw[i]
              /\ \E j \in DOMAIN raw : raw[j] < raw[i]) => QEq(norm[i], QInt(0))
          /\ \A j \in DOMAIN raw : raw[i] < raw[j] => ~QLess(norm[i], norm[j])

\* The raw result sets of the completed search.
LexicalRaw == [id \in LexicalIds |-> corpus[id].bm25]
VectorRaw == [id \in VectorIds |-> corpus[id].distance]

\* C16: the lexical and the vector result set of a search are each
\* normalized into [0, 1] preserving rank: the best raw score to 1.0, the
\* worst to 0.0, a strictly better raw score never lower, and all to 1.0,
\* without a division by zero, when the members share one score.  The rows
\* returned carry these normalized scores.
C16_Normalization ==
    searched.op = "search" =>
        /\ RankPreserving(LexicalRaw, NormalizeBm25Scores(LexicalRaw))
        /\ RankPreserving(VectorRaw, NormalizeDistances(VectorRaw))
        /\ SearchReturns =>
              \A p \in DOMAIN Rows :
                 /\ Rows[p].id \in LexicalIds =>
                       QEq(Rows[p].bm25_score,
                           NormalizeBm25Scores(LexicalRaw)[Rows[p].id])
                 /\ Rows[p].id \in VectorIds =>
                       QEq(Rows[p].semantic_score,
                           NormalizeDistances(VectorRaw)[Rows[p].id])

\* A search over three records at three distances, two of them lexical
\* matches of different raw scores: the scores 1, 1/2 and 0 are returned.
C16_Witness ==
    /\ SearchReturns
    /\ Len(Rows) = 3
    /\ Cardinality(LexicalIds) = 2
    /\ \E p, q \in DOMAIN Rows :
          /\ QEq(Rows[p].bm25_score, QInt(1)) /\ Rows[p].id \in LexicalIds
          /\ QEq(Rows[q].bm25_score, QInt(0)) /\ Rows[q].id \in LexicalIds
    /\ \E p, q, r \in DOMAIN Rows :
          /\ QEq(Rows[p].semantic_score, QInt(1))
          /\ QEq(Rows[q].semantic_score, Q(1, 2))
          /\ QEq(Rows[r].semantic_score, QInt(0))

Eligible(source_types) ==
    IF source_types.none THEN DOMAIN corpus
    ELSE {id \in DOMAIN corpus :
             corpus[id].source_type \in Range(source_types.list)}

\* C18: semantic_search(q, limit, source_types) returns the min(limit,
\* number of eligible records) eligible records nearest to q, nearest
\* first and equal distances by ascending id; no eligible record nearer
\* than a returned one is left out.
C18_NearestEligible ==
    searched.op = "semantic" =>
        LET eligible == Eligible(searched.args.source_types)
        IN /\ Len(Rows) = Min({searched.args.limit, Cardinality(eligible)})
           /\ RowIds \subseteq eligible
           /\ \A p, q \in DOMAIN Rows :
                 p < q =>
                    \/ Rows[p].distance < Rows[q].distance
                    \/ /\ Rows[p].distance = Rows[q].distance
                       /\ Rows[p].id < Rows[q].id
           /\ \A id \in eligible \ RowIds :
                 \A p \in DOMAIN Rows :
                    \/ Rows[p].distance < corpus[id].distance
                    \/ /\ Rows[p].distance = corpus[id].distance
                       /\ Rows[p].id < id

\* The arguments carry an input error: a query text that is empty or that
\* the lexical index cannot parse, or a filter value that is no source type.
InputError(a) ==
    \/ a.query \in Fts5Rejects
    \/ /\ ~a.source_types.none
       /\ \E t \in Range(a.source_types.list) :
             t \notin {SOURCE_BUSINESS_DOC, SOURCE_POST, SOURCE_REPLY}

\* C19: a search whose arguments carry an input error returns an error,
\* raised before any query on the store, and no results.
C19_InputErrorsRejected ==
    (searched.op = "search" /\ InputError(searched.args)) =>
        /\ searched.out.kind = "raise"
        /\ searched.out.at \notin {"semantic_search", "get_metadata_by_ids"}
        /\ searched.out.results = <<>>

\* The store call named by the fault of the completed search was made: the
\* lexical and the vector query always are, the metadata query when there
\* is a candidate.
FailedCallMade ==
    \/ searched.args.fault \in {"lexical", "vector"}
    \/ searched.args.fault = "metadata" /\ CandidateIds # {}

\* C20: when a store call of a search fails, the search raises; it never
\* returns a result list as though the failed query had found nothing.
C20_StorageFailurePropagated ==
    (searched.op = "search" /\ FailedCallMade) =>
        /\ searched.out.kind = "raise"
        /\ searched.out.results = <<>>

(***************************************************************************)
(* Formatting and chunking.                                                *)
(***************************************************************************)
\* C21: for every non-empty result list and every max_chars the text
\* format_context_for_prompt returns, headers, newlines and separators
\* counted, is at most max_chars characters long.
C21_ContextWithinMaxChars ==
    (applied.op = "format_context_for_prompt" /\ Len(applied.args.results) > 0) =>
        applied.out.text.n <= applied.args.max_chars

\* The chunker call that completed: the non-blank pieces of its document
\* and the chunks it returned.
Chunked == applied.op = "chunk_business_doc"
Paragraphs == SelectSeq(applied.args.content, LAMBDA piece : piece.n > 0)
Chunks == applied.out
Headers == {None} \cup {Paragraphs[i].header : i \in DOMAIN Paragraphs}

\* The paragraphs that g puts into chunk k.
GroupOf(g, k) ==
    SubSeq(Paragraphs, Min({i \in DOMAIN g : g[i] = k}),
                       Max({i \in DOMAIN g : g[i] = k}))

\* g sends every paragraph to one chunk, in order, leaves no chunk without
\* a paragraph, and the content of each chunk is its prefix and exactly its
\* paragraphs, whole.
IsGrouping(g) ==
    /\ \A i, j \in DOMAIN g : i < j => g[i] <= g[j]
    /\ \A k \in DOMAIN Chunks :
          /\ \E i \in DOMAIN g : g[i] = k
          /\ \E section \in Headers :
                Chunks[k].content =
                   BuildChunkContent(applied.args.title, section, GroupOf(g, k)).s
Groupings == {g \in [DOMAIN Paragraphs -> DOMAIN Chunks] : IsGrouping(g)}

\* C22: the chunks partition the paragraphs of the document: every
\* paragraph is whole in exactly one chunk, in the original order; no chunk
\* is empty; no paragraph gives no chunk, and a document without a
\* blank-line break gives exactly one.
C22_ChunksPartitionParagraphs ==
    Chunked =>
        /\ Len(Paragraphs) = 0 => Len(Chunks) = 0
        /\ Len(Paragraphs) > 0 => Cardinality(Groupings) = 1
        /\ \A k \in DOMAIN Chunks : Len(Chunks[k].content) > 0
        /\ (Len(applied.args.content) = 1 /\ Len(Paragraphs) = 1)
              => Len(Chunks) = 1

\* A document of a blank piece and three paragraphs came out as two chunks,
\* one of them of two paragraphs.
C22_Witness ==
    /\ Chunked
    /\ Len(applied.args.content) = 4
    /\ Len(Paragraphs) = 3
    /\ Len(Chunks) = 2
    /\ Cardinality(Groupings) = 1

\* The assignment of paragraphs to the chunks returned.
Grouping == CHOOSE g \in Groupings : TRUE

RECURSIVE Chars(_)
Chars(paragraphs) ==
    IF Len(paragraphs) = 0 THEN 0 ELSE Head(paragraphs).n + Chars(Tail(paragraphs))

\* The characters of the running chunk when paragraph j arrives: those of
\* the paragraphs before j in the chunk of paragraph j - 1.
Accumulated(g, j) ==
    Chars(SubSeq(Paragraphs, Min({i \in DOMAIN g : g[i] = g[j - 1]}), j - 1))

\* C23: with the default budgets (1000 and 2000 characters) the running
\* chunk is closed before paragraph p exactly when the characters
\* accumulated plus len(p) exceed 2000 and the characters accumulated are
\* at least 1000; so every chunk but the last holds at least 1000
\* characters of paragraphs, a paragraph longer than 2000 is kept whole,
\* and two paragraphs of 1200 characters give two chunks.
C23_CloseRule ==
    (Chunked /\ Len(Paragraphs) > 0) =>
        /\ Cardinality(Groupings) = 1
        /\ \A j \in DOMAIN Paragraphs :
              j > 1 =>
                 (Grouping[j] # Grouping[j - 1]
                    <=> /\ Accumulated(Grouping, j) + Paragraphs[j].n > 2000
                        /\ Accumulated(Grouping, j) >= 1000)
        /\ \A k \in DOMAIN Chunks :
              k < Len(Chunks) => Chars(GroupOf(Grouping, k)) >= 1000
        /\ (Len(Paragraphs) = 2 /\ Paragraphs[1].n = 1200 /\ Paragraphs[2].n = 1200)
              => Len(Chunks) = 2

\* Paragraphs of 1000, 1000 and 2500 characters: the second joins the
\* first (2000 is not above the maximum), the third, longer than the
\* maximum, is a chunk of its own.
C23_Witness ==
    /\ Chunked
    /\ Len(Paragraphs) = 3
    /\ Paragraphs[1].n = 1000 /\ Paragraphs[2].n = 1000 /\ Paragraphs[3].n = 2500
    /\ Len(Chunks) = 2
    /\ Cardinality(Groupings) = 1
    /\ Grouping = <<1, 1, 2>>

\* The 'section' of a chunk's metadata.
SectionOf(chunk) == (CHOOSE item \in chunk.metadata.items : item.k = "section").v

\* The last header among the paragraphs up to the end of chunk k, None
\* when there is none.
NearestHeader(g, k) ==
    LET end == Max({i \in DOMAIN g : g[i] = k})
        before == {i \in 1..end : Paragraphs[i].header # None}
    IN IF before = {} THEN None ELSE Paragraphs[Max(before)].header

\* C24: the prefix and the metadata 'section' of every chunk name the
\* nearest header that precedes or is among the chunk's own paragraphs:
\* never a header that comes only after its last paragraph, and none when
\* no header comes before its end.
C24_SectionLabel ==
    (Chunked /\ Len(Paragraphs) > 0) =>
        /\ Cardinality(Groupings) = 1
        /\ \A k \in DOMAIN Chunks :
              /\ SectionOf(Chunks[k]) = NearestHeader(Grouping, k)
              /\ Chunks[k].content =
                    BuildChunkContent(applied.args.title, NearestHeader(Grouping, k),
                                      GroupOf(Grouping, k)).s

(***************************************************************************)
(* The embedding model.                                                    *)
(***************************************************************************)
\* C25: whatever the interleaving of the threads' first calls, at most one
\* model instance is ever constructed and every call that has returned
\* got that same instance.
C25_OneModelInstance ==
    /\ emb.made <= 1
    /\ \A t, u \in Threads :
          (emb.th[t].at = "done" /\ emb.th[u].at = "done")
             => emb.th[t].got = emb.th[u].got

(***************************************************************************)
(* Reads and restarts.                                                     *)
(***************************************************************************)
\* C26: re-opening the store and running a search, get_metadata_by_ids or
\* get_embedding_stats changes no record's metadata row, vector or lexical
\* entry, and assigns no id: the database and the AUTOINCREMENT counter
\* after the step are those before it.
C26_ReadsChangeNothing ==
    [][searched' # searched => (db' = db /\ issued' = issued /\ tx' = tx)]_vars

\* The store holds two records, and was re-opened or read.
C26_Witness ==
    /\ searched.op \in {"reopen", "search"}
    /\ Cardinality(DOMAIN db.meta) >= 2
    /\ DOMAIN db.vec = DOMAIN db.meta /\ DOMAIN db.fts = DOMAIN db.meta

(***************************************************************************)
(* The lexical query.                                                      *)
(***************************************************************************)
\* The records the lexical query of the last bm25_search call matches.
LexicalMatches ==
    {i \in DOMAIN corpus :
        /\ corpus[i].match
        /\ TypesGiven(searched.args.source_types) =>
              corpus[i].source_type \in Range(searched.args.source_types.list)}

\* C27: when more records match than `limit`, bm25_search returns `limit`
\* records and none of the matches left out has a better (lower) raw score
\* than a returned one.
C27_LexicalBestFirst ==
    (searched.op = "bm25" /\ Cardinality(LexicalMatches) > searched.args.limit)
       => LET scores == searched.out.scores
          IN /\ Cardinality(DOMAIN scores) = searched.args.limit
             /\ \A i \in DOMAIN scores, j \in LexicalMatches \ DOMAIN scores :
                   corpus[i].bm25 <= corpus[j].bm25

(***************************************************************************)
(* Posts and replies.                                                      *)
(***************************************************************************)
\* This step ends an embed_post or embed_reply call that returns a rowid.
EmbedReturns ==
    /\ last'.op \in {"embed_post", "embed_reply"}
    /\ last'.kind = "rowid"
    /\ last' # last

\* Between stores before and after, exactly one record was added, under
\* rowid: its metadata row with the source_type and source_id, its vector
\* and its lexical entry; every other entry is as it was.
AddedExactly(before, after, rowid, source_type, source_id) ==
    /\ rowid \notin DOMAIN before.meta
    /\ DOMAIN after.meta = DOMAIN before.meta \cup {rowid}
    /\ DOMAIN after.vec = DOMAIN before.vec \cup {rowid}
    /\ DOMAIN after.fts = DOMAIN before.fts \cup {rowid}
    /\ after.meta[rowid].source_type = source_type
    /\ after.meta[rowid].source_id = source_id
    /\ \A i \in DOMAIN before.meta : after.meta[i] = before.meta[i]
    /\ \A i \in DOMAIN before.vec : after.vec[i] = before.vec[i]
    /\ \A i \in DOMAIN before.fts : after.fts[i] = before.fts[i]
    /\ Cardinality(Records(after, source_type, source_id))
         = Cardinality(Records(before, source_type, source_id)) + 1

\* C28: a returning embed_post / embed_reply call adds exactly one record
\* to the store, with source_type post / reply and the given id, and
\* leaves every record the store held as it was: each returning call for
\* an id adds one more record of that id.
C28_EmbedAddsOne ==
    [][EmbedReturns =>
          AddedExactly(db, db', last'.value,
                       IF last'.op = "embed_post" THEN SOURCE_POST ELSE SOURCE_REPLY,
                       last'.args.id)]_vars

\* Two embed_reply calls returned for the id r1 and the store holds two
\* records of (reply, r1), next to a record it held before.
C28_Witness ==
    /\ last.op = "embed_reply" /\ last.kind = "rowid"
    /\ Cardinality(Records(db, SOURCE_REPLY, "r1")) = 2
    /\ Joined(db)
    /\ Cardinality(DOMAIN db.meta) = 3

(***************************************************************************)
(* The corpus of business documents.                                       *)
(***************************************************************************)
\* The id of the page with this title.
PageIdOf(title) ==
    IF title = ParentPage.title THEN ParentPage.id
    ELSE (CHOOSE page \in Range(ChildPages) : page.title = title).id

\* C29: when embed_notion_docs has returned, the store holds as many
\* business_doc records as the chunks_created it reports, and no record of
\* a page that errors lists as failed.
C29_CorpusMatchesReport ==
    last.op = "embed_notion_docs" =>
       /\ Cardinality(RecordsOfType(db, SOURCE_BUSINESS_DOC)) = last.value
       /\ \A e \in Range(last.args.stats.errors) :
             e.what = "embed page" =>
                Records(db, SOURCE_BUSINESS_DOC, PageIdOf(e.title)) = {}

(***************************************************************************)
(* Searching while another connection writes.                              *)
(***************************************************************************)
\* C30: whatever another connection deletes or ingests while a search
\* runs, no result of the search has the placeholders "" for both its
\* content and its source_type.
C30_NoPlaceholderResult ==
    (searched.op = "search" /\ searched.out.kind = "results")
       => \A k \in DOMAIN searched.out.results :
             ~ (/\ searched.out.results[k].content = ""
                /\ searched.out.results[k].source_type = "")

====
